---- MODULE Spec2Model ----
(***************************************************************************)
(* Wind-turbine monitoring system (FreeRTOS, src/src/integrated).          *)
(*                                                                         *)
(* Physical quantities are C floats in the source.  They are modelled as   *)
(* exact integers in tenths of the source unit (10.0 mm/s is 100, 85.0 C   *)
(* is 850), and computed with exact arithmetic.  The initial vibration     *)
(* 2.45 is rounded to 25; no comparison of the source tells it from 2.5.   *)
(* Ticks are milliseconds (configTICK_RATE_HZ = 1000).                     *)
(*                                                                         *)
(* The specifications share the variables:                                 *)
(*   Spec        the Safety Governor's control loop (vSafetyTask) at the   *)
(*               granularity of its lock sections, with the Telemetry      *)
(*               Producer writing readings and the emergency flag, and     *)
(*               another worker holding the state lock;                    *)
(*   SpecBarrier the readiness barrier: the three signalling workers with  *)
(*               their warm-up counters and the governor's wait;           *)
(*   SpecDetect  the Anomaly Detector's detection cycle with its history,  *)
(*               baselines and health score, past the wrap of the ring;    *)
(*   SpecContend the first detection cycles together with the writers of   *)
(*               the emergency flag;                                       *)
(*   SpecNetwork the Transmission Worker's whole cycle with its packet     *)
(*               buffer and the allocation counter, and SpecNetworkFair,   *)
(*               the same under fair scheduling;                           *)
(*   SpecMonitor the Status Renderer's pass with the stack monitor;        *)
(*   SpecAlert   the Anomaly Detector's whole cycle with the telemetry     *)
(*               channel and the alert channel, after its warm-up;         *)
(*   SpecCounter the increments of system_mutex_timeouts by two workers    *)
(*               whose takes time out;                                     *)
(*   SpecChannel the telemetry channel with the time stamps of the         *)
(*               readings, the producer and the detector released at       *)
(*               their periods;                                            *)
(*   SpecSection the lock sections of three workers statement by           *)
(*               statement, with both locks and their statistics, and      *)
(*               SpecSectionFair, the same under fair scheduling;          *)
(*   SpecClassify the Transmission Worker's cycle with the writers of the  *)
(*               inputs of its packet classification.                      *)
(* SpecBarrierFair is SpecBarrier under fair scheduling.                   *)
(* Each specification starts the variables it does not use at their        *)
(* construction value and leaves them unchanged.                           *)
(*                                                                         *)
(* The state lock xSystemStateMutex is the variable stateLock.  A take     *)
(* with the 10 ms timeout succeeds when the lock is free and times out     *)
(* when another worker holds it; a section that succeeds runs take, body   *)
(* and give in one step, except under SpecSection.  Of the statistics of   *)
(* g_system_state, the allocation counters, the stack monitor and the      *)
(* statistics of the two locks are part of the state; an access of the     *)
(* Transmission Worker to a statistic is also recorded by name             *)
(* (netUnguarded).                                                         *)
(***************************************************************************)
EXTENDS Integers, Sequences, FiniteSets, TLC

VARIABLES
    tick,             \* xTaskGetTickCount()
    stateLock,        \* holder of xSystemStateMutex, or NoHolder
    sensors,          \* g_system_state.sensors
    emergency_stop,   \* g_system_state.emergency_stop
    pcSafety,         \* vSafetyTask: position in the task
    safety_state,     \* safety_task.c: static SafetyState_t safety_state
    critical,         \* vSafetyTask: local critical of the current cycle
    active_alarms,    \* vSafetyTask: local active_alarms of the current cycle
    pcSensor,         \* vSensorTask: position in the loop body
    base_vibration,   \* vSensorTask: local base_vibration
    stopSetAt,        \* observer: tick of the last false-to-true change of emergency_stop
    eventBits,        \* xSystemReadyEvents: the set of readiness bits that are set
    allReadySeen,     \* observer: the three readiness bits have been set at the same time
    cycle_count,      \* vSensorTask: local cycle_count, until calibration
    sensors_calibrated, \* vSensorTask: local sensors_calibrated
    anomaly_ready,    \* vAnomalyTask: local anomaly_ready
    network_connected, \* g_system_state.network_connected
    pcNetwork,        \* vNetworkTask: position in the loop body
    detection_state,  \* anomaly_task.c: static DetectionState_t detection_state
    anomalies,        \* g_system_state.anomalies
    pcAnomaly,        \* vAnomalyTask: position in detect_anomalies
    detect,           \* detect_anomalies: its locals
    scenario,         \* input: the readings the detector is given, cycle by cycle
    stopHeld,         \* observer: emergency_stop was set when the detector's cycle
                      \* started and has not been cleared since
    memory_stats,     \* g_system_state.memory_stats
    heap_packets,     \* the heap: packet buffers allocated and not yet freed
    netLocals,        \* vNetworkTask: its locals cycle_count, packet, success
    netUnguarded,     \* observer: the fields of g_system_state that the last step of
                      \* vNetworkTask accessed while it did not hold the state lock
    activeAtRelease,  \* observer: active_allocations when the worker's cycle started
    stack_monitoring, \* g_system_state.stack_monitoring
    uptime_seconds,   \* g_system_state.uptime_seconds
    pcDashboard,      \* vDashboardTask: position in the loop body
    dashLocals,       \* update_task_stats: its loop index i
    monitorCall,      \* observer: the arguments of the last update_stack_monitoring call
    monitorSeen,      \* observer: per worker, what its usage samples did since its
                      \* last sample below 60%
    readySignals,     \* observer: the calls of xEventGroupSetBits made by the
                      \* Telemetry Producer and by the Anomaly Detector
    anomalyLocals,    \* vAnomalyTask: its locals cycle_count and items_processed
    sensorQueue,      \* xSensorDataQueue: the readings waiting, oldest first
    alertQueue,       \* xAnomalyAlertQueue: the alerts waiting, oldest first
    current_reading,  \* vSensorTask: the reading assembled in the current cycle
    mutex_stats,      \* g_system_state.mutex_stats
    timeoutsOccurred, \* observer: the takes of the state lock that have timed out
    timeoutLoaded,    \* per worker: the value of system_mutex_timeouts it has loaded
    thresholdLock,    \* holder of xThresholdsMutex, or NoHolder
    sectionPc         \* per worker: its position in the lock sections of its cycle
                      \* for its increment and not yet stored back, or NotLoaded

safetyVars == <<pcSafety, safety_state, critical, active_alarms>>
sensorVars == <<pcSensor, base_vibration>>
barrierVars == <<eventBits, allReadySeen, cycle_count, sensors_calibrated, anomaly_ready,
                 network_connected, pcNetwork>>
detectVars == <<detection_state, anomalies, pcAnomaly, detect, scenario, stopHeld>>
networkVars == <<memory_stats, heap_packets, netLocals, netUnguarded, activeAtRelease>>
monitorVars == <<stack_monitoring, uptime_seconds, pcDashboard, dashLocals, monitorCall,
                 monitorSeen>>
alertVars == <<anomalyLocals, sensorQueue, alertQueue, current_reading>>
counterVars == <<mutex_stats, timeoutsOccurred, timeoutLoaded, thresholdLock, sectionPc>>
vars == <<tick, stateLock, sensors, emergency_stop, safetyVars, sensorVars, stopSetAt,
          barrierVars, detectVars, networkVars, monitorVars,
          readySignals, alertVars, counterVars>>

----------------------------------------------------------------------------
(* Bounds of the model *)

\* Time advances in steps of one quantum, between two releases of the governor.
TickQuantum == 5000
\* No tick beyond MaxTick is explored.
MaxTick == 15000
\* The detector's cycles are counted up to MaxWarmupIndex while it has not signalled.
MaxWarmupIndex == 23
\* The detection cycles explored: history_index runs up to MaxHistoryIndex, past the
\* first wrap of the ring and one full window behind it.
MaxHistoryIndex == 124
\* The detection cycles explored together with the writers of the emergency flag.
MaxContendedCycles == 22
\* A penalty before its cap is represented up to this value (hundredths of a
\* percent); it lies above every cap.
PenaltyCeiling == 15000
\* The cycles of the Transmission Worker that are explored.
\* The Telemetry Producer's cycles are counted up to this.
MaxCalibrationCount == 22
MaxNetworkCycles == 10
\* Takes of the state lock time out while fewer than this many have.
MaxTimeouts == 6
\* The Anomaly Detector's whole cycles are followed while its cycle_count is below this.
MaxAlertCycles == 2
\* The whole cycles are followed from the state after this many cycles that each
\* received and appended the steady reading.
WarmCycles == 21
\* The governor is released for a cycle while alarm_count is below this.
MaxAlarmCount == 4
\* The warnings of the stack monitor that are counted.
MaxWarnings == 3
MaxSections == 3
\* No release of the Telemetry Producer beyond MaxChannelTick is explored.
MaxChannelTick == 2400
MaxSectionTimeouts == 2

----------------------------------------------------------------------------
(* Program constants *)

EMERGENCY_STOP_DURATION == 5000
ISR_EMERGENCY_VIBRATION == 800
SENSORS_CALIBRATED_BIT == 1
NETWORK_CONNECTED_BIT == 2
ANOMALY_READY_BIT == 4
ALL_SYSTEMS_READY == {SENSORS_CALIBRATED_BIT, NETWORK_CONNECTED_BIT, ANOMALY_READY_BIT}
CALIBRATION_CYCLES == 20
BASELINE_WINDOW == 20
HISTORY_SIZE == 100
MAX_STACK_MONITORED_TASKS == 8
configTICK_RATE_HZ == 1000
\* main, lines 555 and 562: the lengths of the two channels.
SENSOR_QUEUE_LENGTH == 5
ALERT_QUEUE_LENGTH == 3
configMINIMAL_STACK_SIZE == 128
STACK_CRITICAL_PERCENT == 85
STACK_HIGH_PERCENT == 70
STACK_RECOVERY_PERCENT == 60

PRIORITY_SAFETY == 6
PRIORITY_SENSOR == 4
PRIORITY_ANOMALY == 3
PRIORITY_NETWORK == 2
PRIORITY_DASHBOARD == 1

NoHolder == "free"
SafetyTask == "SafetyTask"
SensorTask == "SensorTask"
AnomalyTask == "AnomalyTask"
NetworkTask == "NetworkTask"
DashboardTask == "DashboardTask"

\* system_state_init: the thresholds, never written again.
g_thresholds ==
    [vibration_warning |-> 50, vibration_critical |-> 100,
     temperature_warning |-> 700, temperature_critical |-> 850,
     rpm_min |-> 100, rpm_max |-> 300, current_max |-> 1000]

\* check_critical_conditions: the locals used when xThresholdsMutex times out.
SafetyDefaultThresholds ==
    [vibration_critical |-> 100, temperature_critical |-> 850,
     rpm_min |-> 100, rpm_max |-> 300, current_max |-> 1000]

\* check_critical_conditions: the locals used when xSystemStateMutex times out.
SafetyDefaultReading ==
    [vibration |-> 0, temperature |-> 0, rpm |-> 0, current |-> 0]

\* system_state_init: the initial sensor values.
InitialReading ==
    [vibration |-> 25, temperature |-> 452, rpm |-> 201, current |-> 500]

----------------------------------------------------------------------------
(* Inputs: the physical values the simulated sensors deliver *)

\* Vibration samples of the interrupt source: normal, above the critical
\* threshold, above the producer's emergency level.
VibrationSamples == {25, 120, 900}

\* Temperature, rotational speed and current of one reading: all normal;
\* temperature and speed critical; current critical.
OtherSamples ==
    { [temperature |-> 450, rpm |-> 200, current |-> 500],
      [temperature |-> 900, rpm |-> 350, current |-> 500],
      [temperature |-> 450, rpm |-> 200, current |-> 1100] }

Reading(vib, o) ==
    [vibration |-> vib, temperature |-> o.temperature, rpm |-> o.rpm,
     current |-> o.current]

----------------------------------------------------------------------------
(* The state lock *)

\* xSemaphoreTake(xSystemStateMutex, 10 ms) by worker w returns pdTRUE.
TakeSucceeds(w) == stateLock = NoHolder

\* A worker is inside one of its sections whose body touches none of the
\* variables of the specification at hand, and holds the lock across scheduling
\* points.  A worker that is inside a section takes no other step.
HoldStateLock(w) ==
    /\ stateLock = NoHolder
    /\ stateLock' = w

GiveStateLock(w) ==
    /\ stateLock = w
    /\ stateLock' = NoHolder

----------------------------------------------------------------------------
(* Safety Governor: safety_task.c *)

NoAlarms ==
    [vibration_alarm |-> FALSE, temperature_alarm |-> FALSE,
     rpm_alarm |-> FALSE, current_alarm |-> FALSE, emergency_stop_time |-> 0,
     alarm_count |-> 0]

\* The four critical conditions of check_critical_conditions for reading v.
VibrationCritical(v, th) == v.vibration > th.vibration_critical
TemperatureCritical(v, th) == v.temperature > th.temperature_critical
RpmCritical(v, th) == v.rpm < th.rpm_min \/ v.rpm > th.rpm_max
CurrentCritical(v, th) == v.current > th.current_max

\* A condition that holds adds to alarm_count whatever the boolean says.
Counted_EveryEvaluation(condition, alarm) == IF condition THEN 1 ELSE 0

\* check_critical_conditions, lines 81-85 and the three blocks after it:
\* alarm_count++ stands inside if (!safety_state.x_alarm).
Counted(condition, alarm) == IF condition /\ ~alarm THEN 1 ELSE 0

\* check_critical_conditions, lines 80-122: the alarm booleans and the alarm
\* counter after the evaluation.
AlarmsAfter(st, v, th) ==
    [st EXCEPT !.vibration_alarm = VibrationCritical(v, th),
               !.temperature_alarm = TemperatureCritical(v, th),
               !.rpm_alarm = RpmCritical(v, th),
               !.current_alarm = CurrentCritical(v, th),
               !.alarm_count = @ + Counted(VibrationCritical(v, th), st.vibration_alarm)
                                 + Counted(TemperatureCritical(v, th), st.temperature_alarm)
                                 + Counted(RpmCritical(v, th), st.rpm_alarm)
                                 + Counted(CurrentCritical(v, th), st.current_alarm)]

\* check_critical_conditions, its result: true only when an alarm boolean rises.
RisingEdge(st, v, th) ==
    \/ VibrationCritical(v, th) /\ ~st.vibration_alarm
    \/ TemperatureCritical(v, th) /\ ~st.temperature_alarm
    \/ RpmCritical(v, th) /\ ~st.rpm_alarm
    \/ CurrentCritical(v, th) /\ ~st.current_alarm

\* vSafetyTask, lines 221-225: the number of alarm booleans that are true.
ActiveAlarms(st) ==
    (IF st.vibration_alarm THEN 1 ELSE 0) + (IF st.temperature_alarm THEN 1 ELSE 0)
    + (IF st.rpm_alarm THEN 1 ELSE 0) + (IF st.current_alarm THEN 1 ELSE 0)

LatchDue_AnyAlarm(crit, active) == crit /\ active >= 1

\* vSafetyTask, lines 219-229: the branch that calls trigger_emergency_stop.
LatchDue(crit, active) == crit /\ active >= 2

\* The values check_critical_conditions works on: the shared reading when the
\* state lock is taken, its zero-initialised locals when the take times out.
SafetyReadSensors == IF TakeSucceeds(SafetyTask) THEN sensors ELSE SafetyDefaultReading

\* vSafetyTask, lines 211-230: the governor is released, evaluates the four
\* conditions and counts the alarms.
SafetyCheck ==
    /\ pcSafety = "delay"
    /\ safety_state.alarm_count < MaxAlarmCount
    /\ \E thresholdsTaken \in BOOLEAN :
         LET v == SafetyReadSensors
             th == IF thresholdsTaken THEN g_thresholds ELSE SafetyDefaultThresholds
             st == AlarmsAfter(safety_state, v, th)
             crit == RisingEdge(safety_state, v, th)
         IN /\ safety_state' = st
            /\ critical' = crit
            /\ active_alarms' = IF crit THEN ActiveAlarms(st) ELSE 0
            /\ pcSafety' = IF LatchDue(crit, ActiveAlarms(st)) THEN "trigger" ELSE "clear"
    /\ UNCHANGED <<tick, stateLock, sensors, emergency_stop, sensorVars, stopSetAt,
                   barrierVars, detectVars, networkVars, monitorVars,
                   readySignals, alertVars, counterVars>>

\* trigger_emergency_stop, lines 128-141.
SafetyTrigger ==
    /\ pcSafety = "trigger"
    /\ emergency_stop' = IF TakeSucceeds(SafetyTask) THEN TRUE ELSE emergency_stop
    /\ stopSetAt' = IF ~emergency_stop /\ emergency_stop' THEN tick ELSE stopSetAt
    /\ safety_state' = [safety_state EXCEPT !.emergency_stop_time = tick]
    /\ pcSafety' = "clear"
    /\ UNCHANGED <<tick, stateLock, sensors, critical, active_alarms, sensorVars,
                   barrierVars, detectVars, networkVars, monitorVars,
                   readySignals, alertVars, counterVars>>

\* check_emergency_clear, lines 144-157: the flag is read and the hold time tested.
HoldElapsed(now, since) == now - since > EMERGENCY_STOP_DURATION

SafetyClearRead ==
    /\ pcSafety = "clear"
    /\ LET emergency == IF TakeSucceeds(SafetyTask) THEN emergency_stop ELSE FALSE
       IN pcSafety' = IF emergency /\ HoldElapsed(tick, safety_state.emergency_stop_time)
                      THEN "recheck" ELSE "delay"
    /\ UNCHANGED <<tick, stateLock, sensors, emergency_stop, safety_state, critical,
                   active_alarms, sensorVars, stopSetAt, barrierVars, detectVars,
                   networkVars, monitorVars, readySignals, alertVars, counterVars>>

\* check_emergency_clear, line 159: the second call of check_critical_conditions.
SafetyRecheck ==
    /\ pcSafety = "recheck"
    /\ \E thresholdsTaken \in BOOLEAN :
         LET v == SafetyReadSensors
             th == IF thresholdsTaken THEN g_thresholds ELSE SafetyDefaultThresholds
         IN /\ safety_state' = AlarmsAfter(safety_state, v, th)
            /\ pcSafety' = IF RisingEdge(safety_state, v, th) THEN "delay" ELSE "unlatch"
    /\ UNCHANGED <<tick, stateLock, sensors, emergency_stop, critical, active_alarms,
                   sensorVars, stopSetAt, barrierVars, detectVars, networkVars, monitorVars,
                   readySignals, alertVars, counterVars>>

\* check_emergency_clear, lines 160-167: the flag is cleared.
SafetyClearWrite ==
    /\ pcSafety = "unlatch"
    /\ emergency_stop' = IF TakeSucceeds(SafetyTask) THEN FALSE ELSE emergency_stop
    /\ pcSafety' = "delay"
    /\ UNCHANGED <<tick, stateLock, sensors, safety_state, critical, active_alarms,
                   sensorVars, stopSetAt, barrierVars, detectVars, networkVars, monitorVars,
                   readySignals, alertVars, counterVars>>

----------------------------------------------------------------------------
(* Telemetry Producer: sensor_task.c *)

\* vSensorTask, lines 94-104: one deferred sample is received and becomes
\* base_vibration.  A sample above 80.0 leads to the emergency section.
SensorReceive ==
    /\ pcSensor \in {"delay", "drain"}
    /\ \E sample \in VibrationSamples :
         /\ base_vibration' = sample
         /\ pcSensor' = IF sample > ISR_EMERGENCY_VIBRATION THEN "estop" ELSE "drain"
    /\ UNCHANGED <<tick, stateLock, sensors, emergency_stop, safetyVars, stopSetAt,
                   barrierVars, detectVars, networkVars, monitorVars,
                   readySignals, alertVars, counterVars>>

\* vSensorTask, lines 107-116.
SensorEmergency ==
    /\ pcSensor = "estop"
    /\ emergency_stop' = IF TakeSucceeds(SensorTask) THEN TRUE ELSE emergency_stop
    /\ stopSetAt' = IF ~emergency_stop /\ emergency_stop' THEN tick ELSE stopSetAt
    /\ pcSensor' = "drain"
    /\ UNCHANGED <<tick, stateLock, sensors, safetyVars, base_vibration, barrierVars,
                   detectVars, networkVars, monitorVars, readySignals, alertVars, counterVars>>

\* vSensorTask, lines 147-162: no sample is left; the reading is assembled from
\* base_vibration and the simulated channels and written to the store.
SensorPublish ==
    /\ pcSensor \in {"delay", "drain"}
    /\ \E o \in OtherSamples :
         sensors' = IF TakeSucceeds(SensorTask) THEN Reading(base_vibration, o) ELSE sensors
    /\ pcSensor' = "delay"
    /\ UNCHANGED <<tick, stateLock, emergency_stop, safetyVars, base_vibration, stopSetAt,
                   barrierVars, detectVars, networkVars, monitorVars,
                   readySignals, alertVars, counterVars>>

----------------------------------------------------------------------------
(* Time and the holders of the lock *)

\* vTaskDelayUntil: time passes while the governor waits for its next release.
Tick ==
    /\ pcSafety = "delay"
    /\ tick + TickQuantum <= MaxTick
    /\ tick' = tick + TickQuantum
    /\ UNCHANGED <<stateLock, sensors, emergency_stop, safetyVars, sensorVars, stopSetAt,
                   barrierVars, detectVars, networkVars, monitorVars,
                   readySignals, alertVars, counterVars>>

\* update_memory_stats_alloc: the Transmission Worker inside its accounting section.
NetworkHolds ==
    /\ HoldStateLock(NetworkTask)
    /\ UNCHANGED <<tick, sensors, emergency_stop, safetyVars, sensorVars, stopSetAt,
                   barrierVars, detectVars, networkVars, monitorVars,
                   readySignals, alertVars, counterVars>>

NetworkGives ==
    /\ GiveStateLock(NetworkTask)
    /\ UNCHANGED <<tick, sensors, emergency_stop, safetyVars, sensorVars, stopSetAt,
                   barrierVars, detectVars, networkVars, monitorVars,
                   readySignals, alertVars, counterVars>>

\* vAnomalyTask, lines 276-284: the Anomaly Detector inside its statistics section.
AnomalyHolds ==
    /\ HoldStateLock(AnomalyTask)
    /\ UNCHANGED <<tick, sensors, emergency_stop, safetyVars, sensorVars, stopSetAt,
                   barrierVars, detectVars, networkVars, monitorVars,
                   readySignals, alertVars, counterVars>>

AnomalyGives ==
    /\ GiveStateLock(AnomalyTask)
    /\ UNCHANGED <<tick, sensors, emergency_stop, safetyVars, sensorVars, stopSetAt,
                   barrierVars, detectVars, networkVars, monitorVars,
                   readySignals, alertVars, counterVars>>

----------------------------------------------------------------------------
(* Anomaly Detector: anomaly_task.c, data *)

\* static DetectionState_t detection_state = {0}.  A baseline is the exact
\* quotient sum / size; a spread s is held by its square: s * s = sq / size^2.
ZeroHistory == [i \in 0..(HISTORY_SIZE - 1) |-> 0]
ZeroMean == [sum |-> 0, size |-> 1]
ZeroSpread == [sq |-> 0, size |-> 1]

InitialDetectionState ==
    [vibration_history |-> ZeroHistory, temperature_history |-> ZeroHistory,
     rpm_history |-> ZeroHistory, history_index |-> 0,
     vibration_baseline |-> ZeroMean, temperature_baseline |-> ZeroMean,
     rpm_baseline |-> ZeroMean,
     vibration_stddev |-> ZeroSpread, temperature_stddev |-> ZeroSpread,
     rpm_stddev |-> ZeroSpread]

\* system_state_init: the anomaly results; health_score in hundredths of a percent.
InitialAnomalies ==
    [vibration_anomaly |-> FALSE, temperature_anomaly |-> FALSE,
     rpm_anomaly |-> FALSE, health_score |-> 10000]

\* detect_anomalies: its locals before the first call.
InitialDetectLocals ==
    [vib_anomaly |-> FALSE, temp_anomaly |-> FALSE, rpm_anomaly |-> FALSE,
     vib_penalty |-> 0, temp_penalty |-> 0, rpm_penalty |-> 0,
     health |-> 10000, emergency |-> FALSE]

\* detect_anomalies: the thresholds it uses; its local defaults equal g_thresholds.
AnomalyDefaultThresholds ==
    [vibration_warning |-> 50, temperature_warning |-> 700, rpm_min |-> 100, rpm_max |-> 300]

(* Inputs of the detector.  A scenario gives the reading of every cycle: the *)
(* steady reading, except in cycle oddAt, where the reading is a vibration   *)
(* spike, a step of temperature and speed, or the lock take of the read      *)
(* times out.                                                                *)
SteadyReading == [vibration |-> 25, temperature |-> 450, rpm |-> 200, current |-> 500]
SpikeReading == [vibration |-> 120, temperature |-> 450, rpm |-> 200, current |-> 500]
StepReading == [vibration |-> 25, temperature |-> 452, rpm |-> 230, current |-> 500]

OddCycles == {10, 20, 100, 110}
OddKinds == {"spike", "step", "timeout"}
Scenarios == [oddAt : OddCycles, kind : OddKinds]
QuietScenario == [oddAt |-> 10, kind |-> "spike"]

ScenarioReading(sc, cycle) ==
    IF cycle # sc.oddAt THEN SteadyReading
    ELSE IF sc.kind = "spike" THEN SpikeReading
    ELSE IF sc.kind = "step" THEN StepReading
    ELSE SteadyReading

ScenarioTimeout(sc, cycle) == cycle = sc.oddAt /\ sc.kind = "timeout"

(* A read behind the end of a history array is undefined in C.  The outcomes  *)
(* modelled: the cell of the array that follows it in DetectionState_t        *)
(* (vibration, temperature, rpm; the cells behind rpm_history are taken as 0), *)
(* or zeroed memory.                                                          *)
StrayModes == {"adjacent", "zero"}

Cell(history, following, i, mode) ==
    IF i < HISTORY_SIZE THEN history[i]
    ELSE IF mode = "adjacent" /\ i < 2 * HISTORY_SIZE THEN following[i - HISTORY_SIZE]
    ELSE 0

\* &history[start_idx] with count elements, as the array calculate_mean is given.
Window(history, following, start_idx, count, mode) ==
    [k \in 0..(count - 1) |-> Cell(history, following, start_idx + k, mode)]

----------------------------------------------------------------------------
(* Anomaly Detector: the arithmetic *)

RECURSIVE SumOf(_, _)
SumOf(data, size) == IF size = 0 THEN 0 ELSE data[size - 1] + SumOf(data, size - 1)

\* calculate_mean: sum / size, kept as the exact quotient.
calculate_mean(data, size) == [sum |-> SumOf(data, size), size |-> size]

RECURSIVE SumSqOf(_, _, _)
SumSqOf(data, size, mean) ==
    IF size = 0 THEN 0
    ELSE LET diff == mean.size * data[size - 1] - mean.sum
         IN diff * diff + SumSqOf(data, size - 1, mean)

\* calculate_stddev: sqrt(sum_sq / size) with diff = data[i] - mean.  With the
\* mean as sum / size, diff is (size * data[i] - sum) / size; sq is the sum of
\* the squared numerators divided by size, so that stddev^2 = sq / size^2.
calculate_stddev(data, size, mean) ==
    [sq |-> SumSqOf(data, size, mean) \div size, size |-> size]

Abs(x) == IF x < 0 THEN -x ELSE x
Min(a, b) == IF a < b THEN a ELSE b
Max(a, b) == IF a > b THEN a ELSE b

\* fabs(v - baseline), as the numerator over baseline.size.
Deviation(v, baseline) == Abs(baseline.size * v - baseline.sum)

\* a / b <= c / d for a, c >= 0 and b, d > 0, by the continued fractions of the
\* two quotients: no product is formed.
RECURSIVE FracLeq(_, _, _, _)
FracLeq(a, b, c, d) ==
    LET qa == a \div b
        qc == c \div d
        ra == a % b
        rc == c % d
    IN IF qa # qc THEN qa < qc
       ELSE IF ra = 0 THEN TRUE
       ELSE IF rc = 0 THEN FALSE
       ELSE FracLeq(d, rc, b, ra)

\* The largest k in lo..hi with 3 * k * sqrt(sq) <= num, for num > 0 and sq > 0.
RECURSIVE FloorQuotient(_, _, _, _)
FloorQuotient(num, sq, lo, hi) ==
    IF lo >= hi THEN lo
    ELSE LET mid == (lo + hi + 1) \div 2
         IN IF FracLeq(sq, num, num, 9 * mid * mid)
            THEN FloorQuotient(num, sq, mid, hi)
            ELSE FloorQuotient(num, sq, lo, mid - 1)

\* score * weight with score = fabs(v - baseline) / (stddev * 3.0), in hundredths of
\* a percent, rounded down: deviation / stddev is Deviation / sqrt(sq).
ScoreTimes(v, baseline, stddev, weight) ==
    LET num == 100 * weight * Deviation(v, baseline)
    IN IF num = 0 THEN 0 ELSE FloorQuotient(num, stddev.sq, 0, PenaltyCeiling)

Penalty_NoCap(raw, cap) == raw

\* fmin(score * weight, cap).
Penalty(raw, cap) == Min(raw, cap)

\* detect_anomalies, lines 177-193: the reduction of one channel.
ChannelPenalty(v, baseline, stddev, weight, cap) ==
    IF stddev.sq > 0 THEN Penalty(ScoreTimes(v, baseline, stddev, weight), cap) ELSE 0

\* deviation > 3.0 * stddev.
ThreeSigma(v, baseline, stddev) ==
    LET d == Deviation(v, baseline) IN d * d > 9 * stddev.sq

\* detect_anomalies, lines 120-124.
StoreInHistory(ds, v) ==
    LET idx == ds.history_index % HISTORY_SIZE
    IN [ds EXCEPT !.vibration_history[idx] = v.vibration,
                  !.temperature_history[idx] = v.temperature,
                  !.rpm_history[idx] = v.rpm,
                  !.history_index = @ + 1]

\* update_baselines, lines 73-80: count and start_idx for a history counter.
WindowCount(history_index) ==
    IF history_index < BASELINE_WINDOW THEN history_index ELSE BASELINE_WINDOW
WindowStart(history_index) ==
    IF history_index < BASELINE_WINDOW THEN 0 ELSE history_index - BASELINE_WINDOW

\* update_baselines.
update_baselines(ds, mode) ==
    LET count == WindowCount(ds.history_index)
        start_idx == WindowStart(ds.history_index)
        vibs == Window(ds.vibration_history, ds.temperature_history, start_idx, count, mode)
        temps == Window(ds.temperature_history, ds.rpm_history, start_idx, count, mode)
        rpms == Window(ds.rpm_history, ZeroHistory, start_idx, count, mode)
        vb == calculate_mean(vibs, count)
        tb == calculate_mean(temps, count)
        rb == calculate_mean(rpms, count)
    IN IF count > 0
       THEN [ds EXCEPT !.vibration_baseline = vb,
                       !.temperature_baseline = tb,
                       !.rpm_baseline = rb,
                       !.vibration_stddev = calculate_stddev(vibs, count, vb),
                       !.temperature_stddev = calculate_stddev(temps, count, tb),
                       !.rpm_stddev = calculate_stddev(rpms, count, rb)]
       ELSE ds

\* detect_anomalies, lines 147-193: the flags and the health score before the
\* emergency override, from the values read and the updated statistics.
Assess(ds, v, th) ==
    LET armed == ds.history_index > BASELINE_WINDOW
        pv == ChannelPenalty(v.vibration, ds.vibration_baseline, ds.vibration_stddev, 20, 3000)
        pt == ChannelPenalty(v.temperature, ds.temperature_baseline, ds.temperature_stddev,
                             15, 2500)
        pr == ChannelPenalty(v.rpm, ds.rpm_baseline, ds.rpm_stddev, 15, 2500)
    IN [vib_anomaly |-> armed /\ (ThreeSigma(v.vibration, ds.vibration_baseline,
                                             ds.vibration_stddev)
                                  \/ v.vibration > th.vibration_warning),
        temp_anomaly |-> armed /\ (ThreeSigma(v.temperature, ds.temperature_baseline,
                                              ds.temperature_stddev)
                                   \/ v.temperature > th.temperature_warning),
        rpm_anomaly |-> armed /\ (ThreeSigma(v.rpm, ds.rpm_baseline, ds.rpm_stddev)
                                  \/ v.rpm < th.rpm_min \/ v.rpm > th.rpm_max),
        vib_penalty |-> pv, temp_penalty |-> pt, rpm_penalty |-> pr,
        health |-> 10000 - pv - pt - pr,
        emergency |-> FALSE]

----------------------------------------------------------------------------
(* Anomaly Detector: the detection cycle, and the writers of the flag *)

DetectFrame == <<tick, safetyVars, sensorVars, stopSetAt, barrierVars, scenario,
                 networkVars, monitorVars, readySignals, alertVars, counterVars>>

\* vAnomalyTask, lines 250-262, and detect_anomalies, lines 107-193: the reading
\* of the cycle is received and kept in the store, read back, appended to the
\* history; the statistics, the flags and the health score are computed.  The
\* scenario names the one cycle in which the lock takes of these reads time out;
\* in every other cycle the detector gets the lock within its timeout.
AnomalyDetect ==
    /\ pcAnomaly = "delay"
    /\ detection_state.history_index < MaxHistoryIndex
    /\ TakeSucceeds(AnomalyTask) = ~ScenarioTimeout(scenario, detection_state.history_index)
    /\ LET taken == TakeSucceeds(AnomalyTask)
           received == ScenarioReading(scenario, detection_state.history_index)
           v == IF taken THEN received
                ELSE [vibration |-> 0, temperature |-> 0, rpm |-> 0, current |-> 0]
       IN /\ sensors' = IF taken THEN received ELSE sensors
          /\ \E mode \in StrayModes, thresholdsTaken \in BOOLEAN :
               LET ds == update_baselines(StoreInHistory(detection_state, v), mode)
                   th == IF thresholdsTaken THEN g_thresholds ELSE AnomalyDefaultThresholds
               IN /\ detection_state' = ds
                  /\ detect' = Assess(ds, v, th)
    /\ stopHeld' = emergency_stop
    /\ pcAnomaly' = "emergency"
    /\ UNCHANGED <<DetectFrame, stateLock, emergency_stop, anomalies>>

\* detect_anomalies, lines 195-208.
AnomalyReadEmergency ==
    /\ pcAnomaly = "emergency"
    /\ LET emergency == IF TakeSucceeds(AnomalyTask) THEN emergency_stop ELSE FALSE
       IN detect' = [detect EXCEPT !.emergency = emergency,
                                   !.health = IF emergency THEN 0 ELSE @]
    /\ pcAnomaly' = "write"
    /\ UNCHANGED <<DetectFrame, stateLock, sensors, emergency_stop, detection_state,
                   anomalies, stopHeld>>

\* detect_anomalies, lines 210-224.
AnomalyWrite ==
    /\ pcAnomaly = "write"
    /\ anomalies' = IF TakeSucceeds(AnomalyTask)
                    THEN [vibration_anomaly |-> detect.vib_anomaly,
                          temperature_anomaly |-> detect.temp_anomaly,
                          rpm_anomaly |-> detect.rpm_anomaly,
                          health_score |-> Max(detect.health, 0)]
                    ELSE anomalies
    /\ pcAnomaly' = "delay"
    /\ UNCHANGED <<DetectFrame, stateLock, sensors, emergency_stop, detection_state,
                   detect, stopHeld>>

\* trigger_emergency_stop, lines 129-133, and vSensorTask, lines 108-112: a
\* writer of the flag sets it in its lock section.
StopLatched ==
    /\ ~emergency_stop
    /\ stateLock = NoHolder
    /\ emergency_stop' = TRUE
    /\ UNCHANGED <<DetectFrame, stateLock, sensors, detection_state, anomalies, pcAnomaly,
                   detect, stopHeld>>

\* check_emergency_clear, lines 160-164: the governor clears the flag.
StopReleased ==
    /\ emergency_stop
    /\ stateLock = NoHolder
    /\ emergency_stop' = FALSE
    /\ stopHeld' = FALSE
    /\ UNCHANGED <<DetectFrame, stateLock, sensors, detection_state, anomalies, pcAnomaly,
                   detect>>

----------------------------------------------------------------------------
(* The readiness barrier: xSystemReadyEvents *)

\* xEventGroupSetBits / xEventGroupClearBits on set-valued bits.
SetBits(bits, b) == bits \cup {b}
ClearBits(bits, b) == bits \ {b}

BitsAfterFailure_ClearAll(bits) == {}

\* transmit_packet, line 256: the bits left after a failed transmission.
BitsAfterFailure(bits) == ClearBits(bits, NETWORK_CONNECTED_BIT)

BarrierOpen_AnyBit(bits) == bits \cap ALL_SYSTEMS_READY # {}

\* xEventGroupWaitBits(ALL_SYSTEMS_READY, pdFALSE, pdTRUE, portMAX_DELAY) returns.
BarrierOpen(bits) == ALL_SYSTEMS_READY \subseteq bits

\* The observer of the barrier follows every change of the bits.
ObserveBits == allReadySeen' = (allReadySeen \/ eventBits' = ALL_SYSTEMS_READY)

\* vSafetyTask, lines 185-207: the wait returns and the governor enters its loop.
SafetyBarrier ==
    /\ pcSafety = "wait"
    /\ BarrierOpen(eventBits)
    /\ pcSafety' = "delay"
    /\ UNCHANGED <<tick, stateLock, sensors, emergency_stop, safety_state, critical,
                   active_alarms, sensorVars, stopSetAt, barrierVars, detectVars,
                   networkVars, monitorVars, readySignals, alertVars, counterVars>>

\* No call of xEventGroupSetBits by the two workers yet.
NoSignals == [sensors |-> 0, anomaly |-> 0]

\* The flag is not consulted: every cycle from the 20th on signals.
CalibrationDue_EveryCycle(calibrated, count) == count >= CALIBRATION_CYCLES

\* vSensorTask, line 70: if (!sensors_calibrated && cycle_count >= 20).
CalibrationDue(calibrated, count) == ~calibrated /\ count >= CALIBRATION_CYCLES

\* vSensorTask, lines 65-86: a cycle is counted; the 20th signals calibration.
SensorCalibrate ==
    /\ cycle_count < MaxCalibrationCount
    /\ cycle_count' = cycle_count + 1
    /\ LET due == CalibrationDue(sensors_calibrated, cycle_count')
       IN /\ sensors_calibrated' = (sensors_calibrated \/ due)
          /\ eventBits' = IF due THEN SetBits(eventBits, SENSORS_CALIBRATED_BIT)
                          ELSE eventBits
          /\ readySignals' = IF due THEN [readySignals EXCEPT !.sensors = @ + 1]
                             ELSE readySignals
    /\ ObserveBits
    /\ UNCHANGED <<tick, stateLock, sensors, emergency_stop, safetyVars, sensorVars,
                   stopSetAt, anomaly_ready, network_connected, pcNetwork, detectVars,
                   networkVars, monitorVars, alertVars, counterVars>>

\* vAnomalyTask, line 272: if (!anomaly_ready && history_index >= BASELINE_WINDOW),
\* inside the branch of a cycle that received data (line 267).
ReadyDue(ready, received, index) == ~ready /\ received /\ index >= BASELINE_WINDOW

\* vAnomalyTask, lines 250-285, and detect_anomalies, line 124: a detection is
\* counted; the signal is given in a cycle that received data from the channel.
AnomalyWarmup ==
    /\ stateLock # AnomalyTask
    /\ detection_state.history_index < MaxWarmupIndex
    /\ detection_state' = [detection_state EXCEPT !.history_index = @ + 1]
    /\ \E received \in BOOLEAN :
         LET due == ReadyDue(anomaly_ready, received, detection_state'.history_index)
         IN /\ anomaly_ready' = (anomaly_ready \/ due)
            /\ eventBits' = IF due THEN SetBits(eventBits, ANOMALY_READY_BIT)
                            ELSE eventBits
            /\ readySignals' = IF due THEN [readySignals EXCEPT !.anomaly = @ + 1]
                               ELSE readySignals
    /\ ObserveBits
    /\ UNCHANGED <<tick, stateLock, sensors, emergency_stop, safetyVars, sensorVars,
                   stopSetAt, cycle_count, sensors_calibrated, network_connected, pcNetwork,
                   anomalies, pcAnomaly, detect, scenario, stopHeld, networkVars, monitorVars,
                   alertVars, counterVars>>

\* check_network_reconnect, lines 280-299: the attempt, the flag written in the
\* lock section when the take succeeds, the bit set whenever the attempt succeeds.
ReconnectOutcome(reconnected) ==
    /\ network_connected' = IF reconnected /\ TakeSucceeds(NetworkTask) THEN TRUE
                            ELSE network_connected
    /\ eventBits' = IF reconnected THEN SetBits(eventBits, NETWORK_CONNECTED_BIT)
                    ELSE eventBits
    /\ ObserveBits

\* transmit_packet, lines 228-257: on failure the flag is cleared in the lock
\* section when the take succeeds, and the bit is cleared.
TransmitOutcome(success) ==
    /\ network_connected' = IF ~success /\ TakeSucceeds(NetworkTask) THEN FALSE
                            ELSE network_connected
    /\ eventBits' = IF success THEN eventBits ELSE BitsAfterFailure(eventBits)
    /\ ObserveBits

\* vNetworkTask, lines 329-334: the unprotected read of the connection flag.
NetworkCheck ==
    /\ pcNetwork = "delay"
    /\ stateLock # NetworkTask
    /\ pcNetwork' = IF network_connected THEN "transmit" ELSE "reconnect"
    /\ UNCHANGED <<tick, stateLock, sensors, emergency_stop, safetyVars, sensorVars,
                   stopSetAt, eventBits, allReadySeen, cycle_count, sensors_calibrated,
                   anomaly_ready, network_connected, detectVars, networkVars, monitorVars,
                   readySignals, alertVars, counterVars>>

\* check_network_reconnect, lines 266-301, and vNetworkTask, lines 331-333.
NetworkReconnect ==
    /\ pcNetwork = "reconnect"
    /\ stateLock # NetworkTask
    /\ \E reconnected \in BOOLEAN : ReconnectOutcome(reconnected)
    /\ pcNetwork' = IF network_connected' THEN "transmit" ELSE "delay"
    /\ UNCHANGED <<tick, stateLock, sensors, emergency_stop, safetyVars, sensorVars,
                   stopSetAt, cycle_count, sensors_calibrated, anomaly_ready, detectVars,
                   networkVars, monitorVars, readySignals, alertVars, counterVars>>

\* transmit_packet, lines 221-263.
NetworkTransmit ==
    /\ pcNetwork = "transmit"
    /\ stateLock # NetworkTask
    /\ \E success \in BOOLEAN : TransmitOutcome(success)
    /\ pcNetwork' = "delay"
    /\ UNCHANGED <<tick, stateLock, sensors, emergency_stop, safetyVars, sensorVars,
                   stopSetAt, cycle_count, sensors_calibrated, anomaly_ready, detectVars,
                   networkVars, monitorVars, readySignals, alertVars, counterVars>>

----------------------------------------------------------------------------
(* Transmission Worker: network_task.c, the whole cycle *)

\* A uint32_t counter of g_system_state, held as its two 16-bit halves.
HalfWord == 65536
Zero32 == [hi |-> 0, lo |-> 0]

\* counter++ and counter-- on a uint32_t: both wrap.
Inc32(c) ==
    IF c.lo = HalfWord - 1 THEN [hi |-> (c.hi + 1) % HalfWord, lo |-> 0]
    ELSE [c EXCEPT !.lo = @ + 1]

Dec32(c) ==
    IF c.lo = 0 THEN [hi |-> (c.hi - 1) % HalfWord, lo |-> HalfWord - 1]
    ELSE [c EXCEPT !.lo = @ - 1]

\* system_state_init: the memory accounting.
InitialMemoryStats ==
    [allocations |-> Zero32, deallocations |-> Zero32,
     active_allocations |-> Zero32, allocation_failures |-> Zero32]

\* a - b on uint32_t: the difference modulo 2^32.
Sub32(a, b) ==
    [hi |-> (a.hi - b.hi - (IF a.lo < b.lo THEN 1 ELSE 0)) % HalfWord,
     lo |-> (a.lo - b.lo) % HalfWord]

\* update_memory_stats_alloc, lines 69-70: the counters of its lock section.
update_memory_stats_alloc(ms) ==
    [ms EXCEPT !.allocations = Inc32(@), !.active_allocations = Inc32(@)]

update_memory_stats_free_ActiveOnly(ms) == [ms EXCEPT !.active_allocations = Dec32(@)]

\* update_memory_stats_free, lines 105-106: the counters of its lock section.
update_memory_stats_free(ms) ==
    [ms EXCEPT !.deallocations = Inc32(@), !.active_allocations = Dec32(@)]

\* vNetworkTask: cycle_count, and packet and success before they are assigned.
InitialNetLocals ==
    [cycle_count |-> 0, alerts_processed |-> 0, packet_type |-> "unassigned",
     packet |-> "NULL", success |-> FALSE]

PacketClass_AlertIgnored(count, stop, health_score, alerts_processed) ==
    IF count % 10 = 0 THEN "PACKET_TYPE_HEARTBEAT"
    ELSE IF stop \/ health_score < 5000 THEN "PACKET_TYPE_ANOMALY_REPORT"
    ELSE "PACKET_TYPE_SENSOR_DATA"

\* vNetworkTask, lines 336-347: the class of the packet of a cycle.
PacketClass(count, stop, health_score, alerts_processed) ==
    IF count % 10 = 0 THEN "PACKET_TYPE_HEARTBEAT"
    ELSE IF stop \/ health_score < 5000 \/ alerts_processed > 0
         THEN "PACKET_TYPE_ANOMALY_REPORT"
    ELSE "PACKET_TYPE_SENSOR_DATA"

\* The state of the Transmission Worker and of the heap at construction.
NetworkConstruction ==
    /\ memory_stats = InitialMemoryStats
    /\ heap_packets = 0
    /\ netLocals = InitialNetLocals
    /\ netUnguarded = {}
    /\ activeAtRelease = Zero32

\* The else branch of a lock section: system_mutex_timeouts++ without the lock.
TimeoutCounted(w) == IF TakeSucceeds(w) THEN {} ELSE {"mutex_stats"}

\* vNetworkTask, lines 341 and 372-373: emergency_stop || health_score < 50.0, read
\* without the lock; health_score is read only when the flag is clear.
CriticalState == emergency_stop \/ anomalies.health_score < 5000
CriticalStateRead == IF emergency_stop THEN {"emergency_stop"}
                     ELSE {"emergency_stop", "anomalies"}

\* vNetworkTask, lines 313-334: the worker is released, counts the cycle,
\* receives at most one alert without waiting and reads the connection flag.
NetRelease ==
    /\ pcNetwork = "delay"
    /\ netLocals.cycle_count < MaxNetworkCycles
    /\ netLocals' = [cycle_count |-> netLocals.cycle_count + 1,
                     alerts_processed |-> IF alertQueue # <<>> THEN 1 ELSE 0,
                     packet_type |-> "unassigned",
                     packet |-> "NULL", success |-> FALSE]
    /\ alertQueue' = IF alertQueue # <<>> THEN Tail(alertQueue) ELSE alertQueue
    /\ activeAtRelease' = memory_stats.active_allocations
    /\ netUnguarded' = {"network_connected"}
    /\ pcNetwork' = IF network_connected THEN "allocate" ELSE "reconnect"
    /\ UNCHANGED <<tick, stateLock, sensors, emergency_stop, safetyVars, sensorVars,
                   stopSetAt, eventBits, allReadySeen, cycle_count, sensors_calibrated,
                   anomaly_ready, network_connected, detectVars, memory_stats,
                   heap_packets, monitorVars, readySignals, anomalyLocals, sensorQueue,
                   current_reading, counterVars>>

\* check_network_reconnect, and vNetworkTask, lines 331-333: the flag is read
\* again without the lock; the cycle is left when it is still false.
NetReconnect ==
    /\ pcNetwork = "reconnect"
    /\ \E reconnected \in BOOLEAN : ReconnectOutcome(reconnected)
    /\ netUnguarded' = {"network_connected"} \cup TimeoutCounted(NetworkTask)
    /\ pcNetwork' = IF network_connected' THEN "allocate" ELSE "delay"
    /\ UNCHANGED <<tick, stateLock, sensors, emergency_stop, safetyVars, sensorVars,
                   stopSetAt, cycle_count, sensors_calibrated, anomaly_ready, detectVars,
                   memory_stats, heap_packets, netLocals, activeAtRelease, monitorVars,
                   readySignals, alertVars, counterVars>>

\* vNetworkTask, lines 336-353, and allocate_packet: the class of the packet is
\* chosen and the buffer allocated.  pvPortMalloc either returns a buffer, which
\* update_memory_stats_alloc counts in its lock section, or finds no memory and
\* calls vApplicationMallocFailedHook (configUSE_MALLOC_FAILED_HOOK is 1), which
\* never returns.
NetAllocate ==
    /\ pcNetwork = "allocate"
    /\ \E allocated \in BOOLEAN :
         LET packet_type == PacketClass(netLocals.cycle_count, emergency_stop,
                                        anomalies.health_score,
                                        netLocals.alerts_processed)
         IN
         IF allocated
         THEN /\ netLocals' = [netLocals EXCEPT !.packet_type = packet_type,
                                                !.packet = "buffer"]
              /\ heap_packets' = heap_packets + 1
              /\ memory_stats' =
                    IF TakeSucceeds(NetworkTask)
                    THEN update_memory_stats_alloc(memory_stats)
                    ELSE memory_stats
              /\ netUnguarded' =
                    (IF netLocals.cycle_count % 10 = 0 THEN {} ELSE CriticalStateRead)
                    \cup TimeoutCounted(NetworkTask)
              /\ pcNetwork' = "transmit"
         ELSE /\ netUnguarded' =
                    IF netLocals.cycle_count % 10 = 0 THEN {} ELSE CriticalStateRead
              /\ pcNetwork' = "halted"
              /\ netLocals' = [netLocals EXCEPT !.packet_type = packet_type]
              /\ UNCHANGED <<heap_packets, memory_stats>>
    /\ UNCHANGED <<tick, stateLock, sensors, emergency_stop, safetyVars, sensorVars,
                   stopSetAt, eventBits, allReadySeen, cycle_count, sensors_calibrated,
                   anomaly_ready, network_connected, detectVars, activeAtRelease,
                   monitorVars, readySignals, alertVars, counterVars>>

\* vNetworkTask, line 365, and transmit_packet: the simulated transmission.
NetTransmit ==
    /\ pcNetwork = "transmit"
    /\ \E success \in BOOLEAN :
         /\ TransmitOutcome(success)
         /\ netLocals' = [netLocals EXCEPT !.success = success]
         /\ netUnguarded' = IF success THEN {"anomalies"} ELSE TimeoutCounted(NetworkTask)
    /\ pcNetwork' = "free"
    /\ UNCHANGED <<tick, stateLock, sensors, emergency_stop, safetyVars, sensorVars,
                   stopSetAt, cycle_count, sensors_calibrated, anomaly_ready, detectVars,
                   memory_stats, heap_packets, activeAtRelease, monitorVars, readySignals,
                   alertVars, counterVars>>

FreeDue_OnSuccess(pkt, success) == pkt # "NULL" /\ success

\* free_packet, line 180: the buffer is freed whenever the pointer is not NULL.
FreeDue(pkt, success) == pkt # "NULL"

\* vNetworkTask, line 368, and free_packet: vPortFree, then
\* update_memory_stats_free counts the free in its lock section.
NetFree ==
    /\ pcNetwork = "free"
    /\ IF FreeDue(netLocals.packet, netLocals.success)
       THEN /\ heap_packets' = heap_packets - 1
            /\ netLocals' = [netLocals EXCEPT !.packet = "freed"]
            /\ memory_stats' =
                  IF TakeSucceeds(NetworkTask)
                  THEN update_memory_stats_free(memory_stats)
                  ELSE memory_stats
            /\ netUnguarded' = TimeoutCounted(NetworkTask)
       ELSE /\ netUnguarded' = {}
            /\ UNCHANGED <<heap_packets, netLocals, memory_stats>>
    /\ pcNetwork' = "finish"
    /\ UNCHANGED <<tick, stateLock, sensors, emergency_stop, safetyVars, sensorVars,
                   stopSetAt, eventBits, allReadySeen, cycle_count, sensors_calibrated,
                   anomaly_ready, network_connected, detectVars, activeAtRelease, monitorVars,
                   readySignals, alertVars, counterVars>>

\* vNetworkTask, lines 370-394, and record_preemption: the critical state is read
\* and preemption events are recorded, all without the lock.
NetFinish ==
    /\ pcNetwork = "finish"
    /\ netUnguarded' =
          CriticalStateRead
          \cup (IF \/ CriticalState /\ netLocals.cycle_count % 3 = 0
                   \/ netLocals.cycle_count % 5 = 0
                THEN {"preemption_history"} ELSE {})
    /\ pcNetwork' = "delay"
    /\ UNCHANGED <<tick, stateLock, sensors, emergency_stop, safetyVars, sensorVars,
                   stopSetAt, eventBits, allReadySeen, cycle_count, sensors_calibrated,
                   anomaly_ready, network_connected, detectVars, memory_stats, heap_packets,
                   netLocals, activeAtRelease, monitorVars,
                   readySignals, alertVars, counterVars>>

\* The values of the health score the detector writes in the cycles looked at:
\* full health, the floor of the classification, below the floor.
HealthSamples == {10000, 5000, 4000}

ClassFrame == <<tick, stateLock, sensors, safetyVars, sensorVars, stopSetAt, barrierVars,
                detection_state, pcAnomaly, detect, scenario, networkVars, monitorVars,
                readySignals, anomalyLocals, sensorQueue, current_reading, counterVars>>

\* trigger_emergency_stop, lines 129-133, and check_emergency_clear, lines
\* 160-164: the governor sets or clears the flag in its lock section.
GovernorWritesStop ==
    /\ stateLock = NoHolder
    /\ emergency_stop' = ~emergency_stop
    /\ UNCHANGED <<ClassFrame, anomalies, alertQueue, stopHeld>>

\* detect_anomalies, lines 210-224: the detector writes the health score in its
\* lock section.
DetectorWritesHealth ==
    /\ stateLock = NoHolder
    /\ \E health_score \in HealthSamples \ {anomalies.health_score} :
         anomalies' = [anomalies EXCEPT !.health_score = health_score]
    /\ UNCHANGED <<ClassFrame, emergency_stop, alertQueue, stopHeld>>

\* vAnomalyTask, lines 299-313: the detector sends an alert; the channel has room.
DetectorOffersAlert ==
    /\ Len(alertQueue) < ALERT_QUEUE_LENGTH
    /\ alertQueue' = Append(alertQueue, [severity |-> 8, type |-> 0])
    /\ UNCHANGED <<ClassFrame, emergency_stop, anomalies, stopHeld>>

----------------------------------------------------------------------------
(* Status Renderer and stack monitor: dashboard_task.c, console.c, main.c *)

\* The workers whose stack the renderer samples, in the order of the task table.
MonitoredTasks == <<SafetyTask, SensorTask>>

\* Stack usage in percent, as update_task_stats hands it to the monitor: below
\* the recovery level, between the recovery and the high level, between the high
\* and the critical level, above the critical level.
UsageSamples == {55, 65, 75, 90}

\* main.c, lines 61-63: the stack sizes of the workers, in words.
STACK_SIZE_MEDIUM == configMINIMAL_STACK_SIZE * 4
STACK_SIZE_LARGE == configMINIMAL_STACK_SIZE * 8

\* update_task_stats, lines 471-478: the stack size the renderer assumes for a
\* task, by its name.
StackSizeWords(task_name) ==
    IF task_name = SafetyTask THEN STACK_SIZE_LARGE ELSE STACK_SIZE_MEDIUM

\* update_task_stats, lines 480-501: the usage in percent computed from the
\* high-water mark (the free words) of a task, with the floor the simulation
\* puts under small values.
StackUsagePercent(task_name, stack_size_words, stack_free_words) ==
    IF stack_size_words > 0 /\ stack_free_words <= stack_size_words
    THEN LET percent == ((stack_size_words - stack_free_words) * 100) \div stack_size_words
         IN IF percent >= 5 THEN percent
            ELSE IF task_name = SafetyTask THEN 12 ELSE 8
    ELSE 5

\* The high-water marks uxTaskGetSystemState reports for a stack of the given
\* size: one for each usage level of UsageSamples.
FreeWordSamples(stack_size_words) ==
    {(stack_size_words * (100 - u)) \div 100 : u \in UsageSamples}

\* system_state_init, lines 270-272: memset of the stack monitoring system.
InitialStackMonitoring ==
    [tasks |-> <<>>,
     global_stats |-> [warnings_issued |-> 0, high_usage_events |-> 0,
                       critical_usage_events |-> 0]]

NoMonitorCall == [task_name |-> "", stack_free_words |-> 0, usage_percent |-> 0]
\* Per worker: a warning has been counted for it and no sample below 60% has
\* followed; its highest sample since its last sample below 60%; the warnings
\* counted in its calls; the changes of its flag from set to clear.
NothingSeen ==
    [t \in {SafetyTask, SensorTask} |->
        [warned |-> FALSE, peak |-> 0, counted |-> 0, recoveries |-> 0]]

\* The state of the renderer and the monitor at construction.
MonitorConstruction ==
    /\ stack_monitoring = InitialStackMonitoring
    /\ uptime_seconds = 0
    /\ pcDashboard = "delay"
    /\ dashLocals = [i |-> 0]
    /\ monitorCall = NoMonitorCall
    /\ monitorSeen = NothingSeen

\* update_stack_monitoring, lines 326-332: the index of the worker's entry, 0 if
\* it has none.
FindMonitor(tasks, task_name) ==
    IF \E k \in 1..Len(tasks) : tasks[k].task_name = task_name
    THEN CHOOSE k \in 1..Len(tasks) :
           /\ tasks[k].task_name = task_name
           /\ \A j \in 1..(k - 1) : tasks[j].task_name # task_name
    ELSE 0

\* update_stack_monitoring, lines 335-344: an entry is created for a new worker
\* while the table has room.
WithMonitor(tasks, task_name, stack_free_words, usage_percent) ==
    IF FindMonitor(tasks, task_name) = 0 /\ Len(tasks) < MAX_STACK_MONITORED_TASKS
    THEN Append(tasks, [task_name |-> task_name,
                        current_high_water |-> stack_free_words,
                        minimum_high_water |-> stack_free_words,
                        usage_percent |-> usage_percent,
                        warning_issued |-> FALSE])
    ELSE tasks

MinimumAfter_Latest(minimum_high_water, stack_free_words) == stack_free_words

\* update_stack_monitoring, lines 352-355: the lowest free stack seen so far.
MinimumAfter(minimum_high_water, stack_free_words) ==
    IF stack_free_words < minimum_high_water THEN stack_free_words
    ELSE minimum_high_water

\* update_stack_monitoring, lines 365-377: the two branches that issue a warning.
CriticalDue(entry, usage_percent) ==
    usage_percent >= STACK_CRITICAL_PERCENT /\ ~entry.warning_issued

HighDue(entry, usage_percent) ==
    /\ ~CriticalDue(entry, usage_percent)
    /\ usage_percent >= STACK_HIGH_PERCENT /\ ~entry.warning_issued

WarningDue_CriticalOnly(crit, high) == crit

\* update_stack_monitoring, lines 363-384: issue_warning, set by either branch.
WarningDue(crit, high) == crit \/ high

RecoveryDue_Never(flag, usage_percent) == FALSE

\* update_stack_monitoring, lines 387-390: the flag is reset below 60%.
RecoveryDue(flag, usage_percent) == usage_percent < STACK_RECOVERY_PERCENT /\ flag

\* update_stack_monitoring: the monitoring system after one call.
update_stack_monitoring(sm, task_name, stack_free_words, usage_percent) ==
    LET tasks == WithMonitor(sm.tasks, task_name, stack_free_words, usage_percent)
        k == FindMonitor(tasks, task_name)
    IN IF k = 0 THEN sm
       ELSE LET entry == tasks[k]
                crit == CriticalDue(entry, usage_percent)
                high == HighDue(entry, usage_percent)
                issue_warning == WarningDue(crit, high)
                flag == issue_warning \/ entry.warning_issued
                gs == sm.global_stats
            IN [tasks |-> [tasks EXCEPT ![k] =
                              [task_name |-> task_name,
                               current_high_water |-> stack_free_words,
                               minimum_high_water |->
                                   MinimumAfter(entry.minimum_high_water,
                                                stack_free_words),
                               usage_percent |-> usage_percent,
                               warning_issued |->
                                   flag /\ ~RecoveryDue(flag, usage_percent)]],
                global_stats |->
                   [warnings_issued |->
                        gs.warnings_issued + (IF issue_warning THEN 1 ELSE 0),
                    high_usage_events |-> gs.high_usage_events + (IF high THEN 1 ELSE 0),
                    critical_usage_events |->
                        gs.critical_usage_events + (IF crit THEN 1 ELSE 0)]]

\* The flag of a worker's entry; clear while it has no entry.
WarningIssued(sm, task_name) ==
    LET k == FindMonitor(sm.tasks, task_name)
    IN IF k = 0 THEN FALSE ELSE sm.tasks[k].warning_issued

\* The observer of the samples of one worker, after a call that led from the
\* monitoring system before to the one after.
SeenAfter(seen, task_name, usage_percent, before, after) ==
    LET counted == after.global_stats.warnings_issued # before.global_stats.warnings_issued
        recovered == WarningIssued(before, task_name) /\ ~WarningIssued(after, task_name)
    IN [seen EXCEPT ![task_name] =
          [warned |-> IF usage_percent < STACK_RECOVERY_PERCENT THEN FALSE
                      ELSE @.warned \/ counted,
           peak |-> IF usage_percent < STACK_RECOVERY_PERCENT THEN 0
                    ELSE IF usage_percent > @.peak THEN usage_percent ELSE @.peak,
           counted |-> @.counted + (IF counted THEN 1 ELSE 0),
           recoveries |-> @.recoveries + (IF recovered THEN 1 ELSE 0)]]

MonitorFrame == <<tick, stateLock, sensors, emergency_stop, safetyVars, sensorVars,
                  stopSetAt, barrierVars, detectVars, networkVars,
                  readySignals, alertVars, counterVars>>

\* vDashboardTask, lines 90-106, console_draw_dashboard, line 77, and
\* update_task_stats, lines 396-421: the renderer is released and starts its pass
\* over the task table.  It takes no lock.
DashboardRelease ==
    /\ pcDashboard = "delay"
    /\ stack_monitoring.global_stats.warnings_issued < MaxWarnings
    /\ dashLocals' = [i |-> 0]
    /\ pcDashboard' = "stats"
    /\ UNCHANGED <<MonitorFrame, stack_monitoring, uptime_seconds, monitorCall, monitorSeen>>

\* update_task_stats, lines 421-510: the loop body for task i, which ends in the
\* call of update_stack_monitoring with the usage computed for that task.
DashboardSample ==
    /\ pcDashboard = "stats"
    /\ dashLocals.i < Len(MonitoredTasks)
    /\ stack_monitoring.global_stats.warnings_issued < MaxWarnings
    /\ \E usage_percent \in UsageSamples :
         LET task_name == MonitoredTasks[dashLocals.i + 1]
             stack_size_words == StackSizeWords(task_name)
         IN \E stack_free_words \in FreeWordSamples(stack_size_words) :
              LET after == update_stack_monitoring(stack_monitoring, task_name,
                                                   stack_free_words, usage_percent)
              IN /\ usage_percent =
                       StackUsagePercent(task_name, stack_size_words, stack_free_words)
                 /\ stack_monitoring' = after
                 /\ monitorCall' = [task_name |-> task_name,
                                    stack_free_words |-> stack_free_words,
                                    usage_percent |-> usage_percent]
                 /\ monitorSeen' = SeenAfter(monitorSeen, task_name, usage_percent,
                                             stack_monitoring, after)
    /\ dashLocals' = [i |-> dashLocals.i + 1]
    /\ pcDashboard' = "stats"
    /\ UNCHANGED <<MonitorFrame, uptime_seconds>>

\* update_task_stats, lines 512-531, and console_draw_dashboard, lines 78-335: the
\* loop has ended; the uptime is written and the store is printed.  No lock is
\* taken.
DashboardDraw ==
    /\ pcDashboard = "stats"
    /\ dashLocals.i = Len(MonitoredTasks)
    /\ uptime_seconds' = tick \div configTICK_RATE_HZ
    /\ pcDashboard' = "delay"
    /\ UNCHANGED <<MonitorFrame, stack_monitoring, dashLocals, monitorCall, monitorSeen>>

----------------------------------------------------------------------------
(* The timeout counter of the state lock: system_mutex_timeouts *)

\* No increment of the counter is under way in a worker.
NotLoaded == [under_way |-> FALSE, value |-> 0]

\* The workers whose timed-out takes are followed, in the order of their priority.
CountingWorkers == {SafetyTask, NetworkTask}

\* system_state_init: the statistics of the two locks start at 0.
InitialMutexStats ==
    [system_mutex_takes |-> Zero32, system_mutex_gives |-> Zero32,
     system_mutex_timeouts |-> 0,
     threshold_mutex_takes |-> Zero32, threshold_mutex_gives |-> Zero32,
     threshold_mutex_timeouts |-> 0]

\* The workers whose lock sections are followed step by step.
SectionWorkers == {SafetyTask, SensorTask, AnomalyTask}

\* A worker waits for its next release.
AtDelay == [at |-> 0, inside |-> "no"]

\* system_state_init: the counter starts at 0; no increment is under way.
CounterConstruction ==
    /\ mutex_stats = InitialMutexStats
    /\ timeoutsOccurred = 0
    /\ timeoutLoaded = [w \in CountingWorkers |-> NotLoaded]
    /\ thresholdLock = NoHolder
    /\ sectionPc = [w \in SectionWorkers |-> AtDelay]

\* main, lines 54-58: the priorities of the workers.
Priority(w) ==
    IF w = SafetyTask THEN PRIORITY_SAFETY
    ELSE IF w = SensorTask THEN PRIORITY_SENSOR
    ELSE IF w = AnomalyTask THEN PRIORITY_ANOMALY
    ELSE IF w = NetworkTask THEN PRIORITY_NETWORK
    ELSE PRIORITY_DASHBOARD

\* A worker runs only while no worker of higher priority is inside an increment:
\* that one is ready to run and the scheduler is preemptive.
MayRun(w) ==
    \A h \in CountingWorkers : Priority(h) > Priority(w) => timeoutLoaded[h] = NotLoaded

CounterFrame == <<tick, sensors, emergency_stop, safetyVars, sensorVars, stopSetAt,
                  barrierVars, detectVars, networkVars, monitorVars, readySignals, alertVars>>

\* The else branch of a lock section, e.g. safety_task.c line 63 and
\* network_task.c line 98: system_mutex_timeouts++ is executed without the lock,
\* as a load of the counter followed by a store of the incremented value.  The
\* take has timed out because another worker holds the lock; the fields the
\* section guards are not touched.
TimeoutLoad(w) ==
    /\ ~TakeSucceeds(w)
    /\ MayRun(w)
    /\ timeoutLoaded[w] = NotLoaded
    /\ timeoutsOccurred < MaxTimeouts
    /\ timeoutLoaded' = [timeoutLoaded EXCEPT
                            ![w] = [under_way |-> TRUE,
                                    value |-> mutex_stats.system_mutex_timeouts]]
    /\ timeoutsOccurred' = timeoutsOccurred + 1
    /\ UNCHANGED <<stateLock, mutex_stats, thresholdLock, sectionPc>>

TimeoutStore(w) ==
    /\ MayRun(w)
    /\ timeoutLoaded[w].under_way
    /\ mutex_stats' = [mutex_stats EXCEPT
                          !.system_mutex_timeouts = timeoutLoaded[w].value + 1]
    /\ timeoutLoaded' = [timeoutLoaded EXCEPT ![w] = NotLoaded]
    /\ UNCHANGED <<stateLock, timeoutsOccurred, thresholdLock, sectionPc>>

\* check_critical_conditions, lines 62-64.
SafetyTimeoutLoad ==
    /\ TimeoutLoad(SafetyTask)
    /\ UNCHANGED CounterFrame

SafetyTimeoutStore ==
    /\ TimeoutStore(SafetyTask)
    /\ UNCHANGED CounterFrame

\* update_memory_stats_alloc, lines 97-99.
NetworkTimeoutLoad ==
    /\ TimeoutLoad(NetworkTask)
    /\ UNCHANGED CounterFrame

NetworkTimeoutStore ==
    /\ TimeoutStore(NetworkTask)
    /\ UNCHANGED CounterFrame

----------------------------------------------------------------------------
(* The lock sections of the workers, step by step: take, takes++, body,       *)
(* gives++, give                                                             *)

\* The operations of one cycle of a worker that take a lock or may block, in the
\* order of the code.  Safety Governor: check_critical_conditions, lines 53-78.
\* Telemetry Producer: vSensorTask, lines 155-165.  Anomaly Detector:
\* vAnomalyTask, lines 250-258, and detect_anomalies, lines 108-145.
SectionProgram(w) ==
    IF w = SafetyTask THEN <<"xSystemStateMutex", "xThresholdsMutex">>
    ELSE IF w = SensorTask THEN <<"xSystemStateMutex", "xQueueSend">>
    ELSE <<"xQueueReceive", "xSystemStateMutex", "xSystemStateMutex", "xThresholdsMutex">>

\* The operations that wait on a channel.
BlockingOperations == {"xQueueSend", "xQueueReceive"}

\* The operation a worker has reached; vTaskDelayUntil between two cycles.
Operation(w) ==
    IF sectionPc[w].at = 0 THEN "vTaskDelayUntil"
    ELSE SectionProgram(w)[sectionPc[w].at]

\* The position behind the operation a worker has reached.
Advance(w) ==
    IF sectionPc[w].at = Len(SectionProgram(w)) THEN AtDelay
    ELSE [at |-> sectionPc[w].at + 1, inside |-> "no"]

HolderOf(lock) == IF lock = "xSystemStateMutex" THEN stateLock ELSE thresholdLock

HolderAfterGive_Kept(w) == w

\* xSemaphoreGive: the lock is free again.
HolderAfterGive(w) == NoHolder

CountedOnTimeout_Always == TRUE

\* The takes counter is incremented in the branch of the successful take only.
CountedOnTimeout == FALSE

\* The statistics after takes++, gives++ and timeouts++ for a lock.
TakeCounted(ms, lock) ==
    IF lock = "xSystemStateMutex" THEN [ms EXCEPT !.system_mutex_takes = Inc32(@)]
    ELSE [ms EXCEPT !.threshold_mutex_takes = Inc32(@)]

GiveCounted(ms, lock) ==
    IF lock = "xSystemStateMutex" THEN [ms EXCEPT !.system_mutex_gives = Inc32(@)]
    ELSE [ms EXCEPT !.threshold_mutex_gives = Inc32(@)]

TimeoutCountedFor(ms, lock) ==
    IF lock = "xSystemStateMutex" THEN [ms EXCEPT !.system_mutex_timeouts = @ + 1]
    ELSE [ms EXCEPT !.threshold_mutex_timeouts = @ + 1]

TakesOf(ms, lock) ==
    IF lock = "xSystemStateMutex" THEN ms.system_mutex_takes ELSE ms.threshold_mutex_takes

TimeoutsOf(ms, lock) ==
    IF lock = "xSystemStateMutex" THEN ms.system_mutex_timeouts
    ELSE ms.threshold_mutex_timeouts

SectionFrame == <<tick, emergency_stop, safetyVars, sensorVars, stopSetAt, barrierVars,
                  detectVars, networkVars, monitorVars, readySignals, alertVars,
                  timeoutsOccurred, timeoutLoaded>>

\* vTaskDelayUntil returns: the worker starts a cycle.
SectionRelease(w) ==
    /\ sectionPc[w] = AtDelay
    /\ sectionPc' = [sectionPc EXCEPT ![w] = [at |-> 1, inside |-> "no"]]
    /\ UNCHANGED <<SectionFrame, stateLock, thresholdLock, mutex_stats, sensors>>

\* xQueueSend (sensor_task.c line 165) and xQueueReceive (anomaly_task.c line
\* 250) return, with or without an item, at the end of their timeout at the
\* latest.
SectionBlocks(w) ==
    /\ sectionPc[w].inside = "no"
    /\ Operation(w) \in BlockingOperations
    /\ sectionPc' = [sectionPc EXCEPT ![w] = Advance(w)]
    /\ UNCHANGED <<SectionFrame, stateLock, thresholdLock, mutex_stats, sensors>>

\* xSemaphoreTake with a timeout of 10 ms: the worker gets the lock when it is
\* free; when another worker holds it until the timeout, the else branch counts
\* the timeout and the section is skipped.
SectionTake(w) ==
    /\ sectionPc[w].inside = "no"
    /\ Operation(w) \in {"xSystemStateMutex", "xThresholdsMutex"}
    /\ LET lock == Operation(w)
       IN IF HolderOf(lock) = NoHolder
          THEN /\ TakesOf(mutex_stats, lock).lo < MaxSections
               /\ stateLock' = IF lock = "xSystemStateMutex" THEN w ELSE stateLock
               /\ thresholdLock' = IF lock = "xThresholdsMutex" THEN w ELSE thresholdLock
               /\ sectionPc' = [sectionPc EXCEPT ![w].inside = "taken"]
               /\ UNCHANGED mutex_stats
          ELSE /\ TimeoutsOf(mutex_stats, lock) < MaxSectionTimeouts
               /\ mutex_stats' =
                     IF CountedOnTimeout
                     THEN TakeCounted(TimeoutCountedFor(mutex_stats, lock), lock)
                     ELSE TimeoutCountedFor(mutex_stats, lock)
               /\ sectionPc' = [sectionPc EXCEPT ![w] = Advance(w)]
               /\ UNCHANGED <<stateLock, thresholdLock>>
    /\ UNCHANGED <<SectionFrame, sensors>>

\* The first statement of a section: takes++ of its lock.
SectionCountTake(w) ==
    /\ sectionPc[w].inside = "taken"
    /\ mutex_stats' = TakeCounted(mutex_stats, Operation(w))
    /\ sectionPc' = [sectionPc EXCEPT ![w].inside = "counted"]
    /\ UNCHANGED <<SectionFrame, stateLock, thresholdLock, sensors>>

\* The body of a section and gives++ of its lock.  The sections of the Safety
\* Governor and of detect_anomalies copy fields into locals; the Telemetry
\* Producer writes its reading to the store (sensor_task.c line 157), the
\* detector the reading it received (anomaly_task.c line 256).
SectionCountGive(w) ==
    /\ sectionPc[w].inside = "counted"
    /\ mutex_stats' = GiveCounted(mutex_stats, Operation(w))
    /\ IF w = SensorTask \/ (w = AnomalyTask /\ sectionPc[w].at = 2)
       THEN \E reading \in {SteadyReading, SpikeReading} : sensors' = reading
       ELSE UNCHANGED sensors
    /\ sectionPc' = [sectionPc EXCEPT ![w].inside = "given"]
    /\ UNCHANGED <<SectionFrame, stateLock, thresholdLock>>

\* xSemaphoreGive: the last statement of a section.
SectionGive(w) ==
    /\ sectionPc[w].inside = "given"
    /\ stateLock' = IF Operation(w) = "xSystemStateMutex" THEN HolderAfterGive(w)
                    ELSE stateLock
    /\ thresholdLock' = IF Operation(w) = "xThresholdsMutex" THEN HolderAfterGive(w)
                        ELSE thresholdLock
    /\ sectionPc' = [sectionPc EXCEPT ![w] = Advance(w)]
    /\ UNCHANGED <<SectionFrame, mutex_stats, sensors>>

----------------------------------------------------------------------------
(* Anomaly Detector: vAnomalyTask, the whole cycle with its two channels *)


\* A reading whose speed lies above rpm_max.
OverspeedReading == [vibration |-> 25, temperature |-> 450, rpm |-> 350, current |-> 500]

\* The readings the Telemetry Producer sends in the cycles looked at.
SentReadings == {SpikeReading, OverspeedReading}

\* The detector after n cycles that each appended the steady reading.
RECURSIVE Warmed(_)
Warmed(n) ==
    IF n = 0 THEN InitialDetectionState
    ELSE update_baselines(StoreInHistory(Warmed(n - 1), SteadyReading), "zero")

\* SensorData_t with its timestamp: a reading stamped with the tick count.
Stamped(r, t) ==
    [vibration |-> r.vibration, temperature |-> r.temperature, rpm |-> r.rpm,
     current |-> r.current, timestamp |-> t]

\* vSensorTask, line 147: current_reading before its first assignment; it is
\* assigned in every cycle before it is used.
NotAssembled == Stamped(SafetyDefaultReading, 0)

\* vAnomalyTask, lines 232-233 and 243: cycle_count and items_processed.
InitialAnomalyLocals == [cycle_count |-> 0, items_processed |-> 0]

\* The two channels are created empty.
AlertConstruction ==
    /\ anomalyLocals = InitialAnomalyLocals
    /\ sensorQueue = <<>>
    /\ alertQueue = <<>>
    /\ current_reading = NotAssembled

\* vAnomalyTask, line 247: 1 reading in the even cycles, 2 in the odd ones.
ItemsToConsume(count) == IF count % 2 = 0 THEN 1 ELSE 2

AlertFrame == <<tick, emergency_stop, safetyVars, sensorVars, stopSetAt, cycle_count,
                sensors_calibrated, network_connected, pcNetwork, scenario, stopHeld,
                networkVars, monitorVars, counterVars, current_reading>>
SignalFrame == <<eventBits, allReadySeen, anomaly_ready, readySignals>>

\* vAnomalyTask, lines 238-262: the detector is released, counts the cycle and
\* receives up to items_to_consume readings without waiting; each is copied into
\* the store inside a lock section.
AlertReceive ==
    /\ pcAnomaly = "delay"
    /\ anomalyLocals.cycle_count < WarmCycles + MaxAlertCycles
    /\ LET count == anomalyLocals.cycle_count + 1
           items == Min(ItemsToConsume(count), Len(sensorQueue))
       IN /\ anomalyLocals' = [cycle_count |-> count, items_processed |-> items]
          /\ sensorQueue' = SubSeq(sensorQueue, items + 1, Len(sensorQueue))
          /\ sensors' = IF items > 0 /\ TakeSucceeds(AnomalyTask) THEN sensorQueue[items]
                        ELSE sensors
    /\ pcAnomaly' = "detect"
    /\ UNCHANGED <<AlertFrame, SignalFrame, stateLock, detection_state, anomalies, detect,
                   alertQueue>>

\* detect_anomalies, called once in every cycle, from line 267 when the cycle
\* received readings and from line 317 when it received none: the reading in the
\* store is read back, appended to the history and assessed, and the results are
\* written to the store; each lock section works when its take succeeds.
AlertDetect ==
    /\ pcAnomaly = "detect"
    /\ LET taken == TakeSucceeds(AnomalyTask)
           v == IF taken THEN sensors
                ELSE [vibration |-> 0, temperature |-> 0, rpm |-> 0, current |-> 0]
       IN \E mode \in StrayModes :
            LET ds == update_baselines(StoreInHistory(detection_state, v), mode)
                found == Assess(ds, v, g_thresholds)
                emergency == taken /\ emergency_stop
                result == [found EXCEPT !.emergency = emergency,
                                        !.health = IF emergency THEN 0 ELSE @]
            IN /\ detection_state' = ds
               /\ detect' = result
               /\ anomalies' = IF taken
                               THEN [vibration_anomaly |-> result.vib_anomaly,
                                     temperature_anomaly |-> result.temp_anomaly,
                                     rpm_anomaly |-> result.rpm_anomaly,
                                     health_score |-> Max(result.health, 0)]
                               ELSE anomalies
    /\ pcAnomaly' = "alert"
    /\ UNCHANGED <<AlertFrame, SignalFrame, stateLock, sensors, alertVars>>

\* vAnomalyTask, lines 296-297: the flags that make an alert due.
AlertDue(a) == a.vibration_anomaly \/ a.temperature_anomaly

\* vAnomalyTask, lines 299-300: the alert that is sent.
AlertFor(a) == [severity |-> IF a.vibration_anomaly THEN 8 ELSE 5,
                type |-> IF a.vibration_anomaly THEN 0 ELSE 1]

\* xQueueSend(xAnomalyAlertQueue, &alert, 0): the alert is dropped when the
\* channel is full.
OfferAlert(queue, alert) ==
    IF Len(queue) < ALERT_QUEUE_LENGTH THEN Append(queue, alert) ELSE queue

\* vAnomalyTask, lines 269-314: in a cycle that received data, readiness is
\* signalled when it is due; when the cycle has an even number, the flags are
\* read in a lock section and an alert is sent.
AlertSend ==
    /\ pcAnomaly = "alert"
    /\ LET received == anomalyLocals.items_processed > 0
           due == ReadyDue(anomaly_ready, received, detection_state.history_index)
           send_alert == /\ received
                         /\ anomalyLocals.cycle_count % 2 = 0
                         /\ TakeSucceeds(AnomalyTask)
                         /\ AlertDue(anomalies)
       IN /\ anomaly_ready' = (anomaly_ready \/ due)
          /\ eventBits' = IF due THEN SetBits(eventBits, ANOMALY_READY_BIT) ELSE eventBits
          /\ readySignals' = IF due THEN [readySignals EXCEPT !.anomaly = @ + 1]
                             ELSE readySignals
          /\ alertQueue' = IF send_alert THEN OfferAlert(alertQueue, AlertFor(anomalies))
                           ELSE alertQueue
    /\ ObserveBits
    /\ pcAnomaly' = "delay"
    /\ UNCHANGED <<AlertFrame, stateLock, sensors, detection_state, anomalies, detect,
                   anomalyLocals, sensorQueue>>

\* vSensorTask, line 165: the Telemetry Producer sends a reading; a reading that
\* finds the channel full until the timeout is dropped.
ProducerSends ==
    /\ \E reading \in SentReadings :
         sensorQueue' = IF Len(sensorQueue) < SENSOR_QUEUE_LENGTH
                        THEN Append(sensorQueue, reading) ELSE sensorQueue
    /\ UNCHANGED <<AlertFrame, SignalFrame, stateLock, sensors, detection_state, anomalies,
                   pcAnomaly, detect, anomalyLocals, alertQueue>>

\* vNetworkTask, lines 317-326: the Transmission Worker receives one alert.
NetworkDrainsAlert ==
    /\ alertQueue # <<>>
    /\ alertQueue' = Tail(alertQueue)
    /\ UNCHANGED <<AlertFrame, SignalFrame, stateLock, sensors, detection_state, anomalies,
                   pcAnomaly, detect, anomalyLocals, sensorQueue>>

----------------------------------------------------------------------------
(* The telemetry channel between the Telemetry Producer and the Anomaly       *)
(* Detector, with the time stamps of the readings                            *)

\* sensor_task.c line 18 and anomaly_task.c line 18: the periods of the two
\* workers in milliseconds; one tick is one millisecond.
SENSOR_READ_RATE_MS == 100
ANOMALY_CHECK_RATE_MS == 200

\* vAnomalyTask, lines 229-238: the detector's next cycle is released at a
\* multiple of its period; that time has come.
DetectorDue == (anomalyLocals.cycle_count + 1) * ANOMALY_CHECK_RATE_MS <= tick

\* main, lines 54-58: the detector has the lower priority.  It runs while the
\* producer waits for its next release or is blocked in xQueueSend on the full
\* channel.
DetectorMayRun ==
    \/ pcSensor = "delay"
    \/ pcSensor = "send" /\ Len(sensorQueue) = SENSOR_QUEUE_LENGTH

SendWhenFull_OverwriteOldest(queue, reading) == Append(Tail(queue), reading)

\* xQueueSend returns errQUEUE_FULL at the end of its timeout: the channel is
\* as it was.
SendWhenFull(queue, reading) == queue

ChannelFrame == <<emergency_stop, safetyVars, base_vibration, stopSetAt, barrierVars,
                  detection_state, anomalies, detect, scenario, stopHeld, networkVars,
                  monitorVars, readySignals, alertQueue, counterVars>>

\* vSensorTask, lines 66 and 146-162: the producer is released at the next
\* multiple of its period, assembles a reading, stamps it with the tick count and
\* writes it to the store when the take of the state lock succeeds.  The
\* detector, released earlier, has ended its cycle before.
ChannelStore ==
    /\ pcSensor = "delay"
    /\ pcAnomaly = "delay" /\ ~DetectorDue
    /\ tick + SENSOR_READ_RATE_MS <= MaxChannelTick
    /\ tick' = tick + SENSOR_READ_RATE_MS
    /\ \E r \in {SteadyReading, SpikeReading} :
         /\ current_reading' = Stamped(r, tick')
         /\ sensors' = IF TakeSucceeds(SensorTask) THEN current_reading' ELSE sensors
    /\ pcSensor' = "send"
    /\ UNCHANGED <<ChannelFrame, stateLock, pcAnomaly, anomalyLocals, sensorQueue>>

\* vSensorTask, lines 164-167: xQueueSend with a timeout of 10 ms.  The reading
\* is appended when the channel has room.  When the channel is full and stays
\* full until the timeout (the detector is not released within it), the send
\* fails, the reading is dropped and the producer goes on to its next cycle.
ChannelSend ==
    /\ pcSensor = "send"
    /\ IF Len(sensorQueue) < SENSOR_QUEUE_LENGTH
       THEN sensorQueue' = Append(sensorQueue, current_reading)
       ELSE /\ pcAnomaly = "delay" /\ ~DetectorDue
            /\ sensorQueue' = SendWhenFull(sensorQueue, current_reading)
    /\ pcSensor' = "delay"
    /\ UNCHANGED <<ChannelFrame, tick, stateLock, sensors, pcAnomaly, anomalyLocals,
                   current_reading>>

\* vAnomalyTask, lines 238-247: the detector is released and counts the cycle.
ChannelWake ==
    /\ pcAnomaly = "delay"
    /\ DetectorDue /\ DetectorMayRun
    /\ anomalyLocals' = [cycle_count |-> anomalyLocals.cycle_count + 1,
                         items_processed |-> 0]
    /\ pcAnomaly' = "receive"
    /\ UNCHANGED <<ChannelFrame, tick, stateLock, sensors, pcSensor, sensorQueue,
                   current_reading>>

\* vAnomalyTask, line 250: the condition of the receive loop.
ReceiveDue ==
    /\ anomalyLocals.items_processed < ItemsToConsume(anomalyLocals.cycle_count)
    /\ sensorQueue # <<>>

\* vAnomalyTask, lines 250-262: one pass of the receive loop.  The oldest
\* reading of the channel is received and copied to the store when the take of
\* the state lock succeeds.
ChannelReceive ==
    /\ pcAnomaly = "receive"
    /\ DetectorMayRun
    /\ ReceiveDue
    /\ sensorQueue' = Tail(sensorQueue)
    /\ anomalyLocals' = [anomalyLocals EXCEPT !.items_processed = @ + 1]
    /\ sensors' = IF TakeSucceeds(AnomalyTask) THEN Head(sensorQueue) ELSE sensors
    /\ pcAnomaly' = "receive"
    /\ UNCHANGED <<ChannelFrame, tick, stateLock, pcSensor, current_reading>>

\* vAnomalyTask, lines 264-324: the loop has ended; the rest of the cycle
\* touches neither the channel nor the sensor fields of the store.
ChannelDetect ==
    /\ pcAnomaly = "receive"
    /\ DetectorMayRun
    /\ ~ReceiveDue
    /\ pcAnomaly' = "delay"
    /\ UNCHANGED <<ChannelFrame, tick, stateLock, sensors, pcSensor, anomalyLocals,
                   sensorQueue, current_reading>>

----------------------------------------------------------------------------
(* Spec: the governor's control loop, from the return of its barrier wait.  *)
(* The producers need at least 4 s of warm-up before the barrier opens, so  *)
(* the loop starts one quantum after the scheduler.                         *)

Init ==
    /\ tick = TickQuantum
    /\ stateLock = NoHolder
    /\ sensors = InitialReading
    /\ emergency_stop = FALSE
    /\ pcSafety = "delay"
    /\ safety_state = NoAlarms
    /\ critical = FALSE
    /\ active_alarms = 0
    /\ pcSensor = "delay"
    /\ base_vibration = 25
    /\ stopSetAt = 0
    /\ eventBits = ALL_SYSTEMS_READY
    /\ allReadySeen = TRUE
    /\ cycle_count = CALIBRATION_CYCLES
    /\ sensors_calibrated = TRUE
    /\ anomaly_ready = TRUE
    /\ network_connected = TRUE
    /\ pcNetwork = "delay"
    /\ detection_state = [InitialDetectionState EXCEPT !.history_index = BASELINE_WINDOW]
    /\ anomalies = InitialAnomalies
    /\ pcAnomaly = "delay"
    /\ detect = InitialDetectLocals
    /\ scenario = QuietScenario
    /\ stopHeld = FALSE
    /\ NetworkConstruction
    /\ MonitorConstruction
    /\ readySignals = NoSignals
    /\ AlertConstruction
    /\ CounterConstruction

Next ==
    \/ SafetyCheck
    \/ SafetyTrigger
    \/ SafetyClearRead
    \/ SafetyRecheck
    \/ SafetyClearWrite
    \/ SensorReceive
    \/ SensorEmergency
    \/ SensorPublish
    \/ Tick
    \/ NetworkHolds
    \/ NetworkGives

Spec == Init /\ [][Next]_vars

----------------------------------------------------------------------------
(* SpecBarrier: from construction.  Every worker is projected on the state  *)
(* the barrier depends on: the warm-up counters, the connection flag, the   *)
(* bits.  The published readings stay at their initial value.               *)

InitBarrier ==
    /\ tick = 0
    /\ stateLock = NoHolder
    /\ sensors = InitialReading
    /\ emergency_stop = FALSE
    /\ pcSafety = "wait"
    /\ safety_state = NoAlarms
    /\ critical = FALSE
    /\ active_alarms = 0
    /\ pcSensor = "delay"
    /\ base_vibration = 25
    /\ stopSetAt = 0
    /\ eventBits = {}
    /\ allReadySeen = FALSE
    /\ cycle_count = 0
    /\ sensors_calibrated = FALSE
    /\ anomaly_ready = FALSE
    /\ network_connected = TRUE
    /\ pcNetwork = "delay"
    /\ detection_state = InitialDetectionState
    /\ anomalies = InitialAnomalies
    /\ pcAnomaly = "delay"
    /\ detect = InitialDetectLocals
    /\ scenario = QuietScenario
    /\ stopHeld = FALSE
    /\ NetworkConstruction
    /\ MonitorConstruction
    /\ readySignals = NoSignals
    /\ AlertConstruction
    /\ CounterConstruction

NextBarrier ==
    \/ SensorCalibrate
    \/ AnomalyWarmup
    \/ NetworkCheck
    \/ NetworkReconnect
    \/ NetworkTransmit
    \/ SafetyBarrier
    \/ SafetyCheck
    \/ SafetyClearRead
    \/ AnomalyHolds
    \/ AnomalyGives

SpecBarrier == InitBarrier /\ [][NextBarrier]_vars

\* Under fair scheduling every worker keeps running its cycles, a worker inside
\* a lock section leaves it, the wait of the governor returns once it can, and
\* a reconnection that is attempted again and again (rand() % 100 < 50)
\* succeeds at some attempt.
SpecBarrierFair ==
    /\ SpecBarrier
    /\ WF_vars(SensorCalibrate)
    /\ WF_vars(AnomalyWarmup)
    /\ WF_vars(NetworkCheck)
    /\ WF_vars(NetworkReconnect)
    /\ WF_vars(NetworkTransmit)
    /\ WF_vars(SafetyBarrier)
    /\ WF_vars(AnomalyGives)
    /\ SF_vars(NetworkReconnect /\ NETWORK_CONNECTED_BIT \in eventBits')

----------------------------------------------------------------------------
(* SpecDetect: the Anomaly Detector from construction, under each scenario,  *)
(* with a holder of the lock around it; emergency_stop stays clear.          *)

InitDetect ==
    /\ tick = 0
    /\ stateLock = NoHolder
    /\ sensors = InitialReading
    /\ emergency_stop = FALSE
    /\ pcSafety = "wait"
    /\ safety_state = NoAlarms
    /\ critical = FALSE
    /\ active_alarms = 0
    /\ pcSensor = "delay"
    /\ base_vibration = 25
    /\ stopSetAt = 0
    /\ eventBits = {}
    /\ allReadySeen = FALSE
    /\ cycle_count = 0
    /\ sensors_calibrated = FALSE
    /\ anomaly_ready = FALSE
    /\ network_connected = TRUE
    /\ pcNetwork = "delay"
    /\ detection_state = InitialDetectionState
    /\ anomalies = InitialAnomalies
    /\ pcAnomaly = "delay"
    /\ detect = InitialDetectLocals
    /\ scenario \in Scenarios
    /\ stopHeld = FALSE
    /\ NetworkConstruction
    /\ MonitorConstruction
    /\ readySignals = NoSignals
    /\ AlertConstruction
    /\ CounterConstruction

NextDetect ==
    \/ AnomalyDetect
    \/ AnomalyReadEmergency
    \/ AnomalyWrite
    \/ NetworkHolds
    \/ NetworkGives

SpecDetect == InitDetect /\ [][NextDetect]_vars

----------------------------------------------------------------------------
(* SpecContend: the first MaxContendedCycles detection cycles, with the      *)
(* writers of emergency_stop and a holder of the lock around the detector.   *)

InitContend ==
    /\ InitDetect
    /\ scenario.oddAt < MaxContendedCycles

AnomalyDetectEarly ==
    /\ detection_state.history_index < MaxContendedCycles
    /\ AnomalyDetect

NextContend ==
    \/ AnomalyDetectEarly
    \/ AnomalyReadEmergency
    \/ AnomalyWrite
    \/ StopLatched
    \/ StopReleased
    \/ NetworkHolds
    \/ NetworkGives

SpecContend == InitContend /\ [][NextContend]_vars

----------------------------------------------------------------------------
(* SpecNetwork: the Transmission Worker from construction, cycle by cycle at  *)
(* the granularity of its lock sections, with the Anomaly Detector holding    *)
(* the state lock around it.  The flag and the health score stay as           *)
(* constructed.                                                               *)

InitNetwork == InitBarrier

NextNetwork ==
    \/ NetRelease
    \/ NetReconnect
    \/ NetAllocate
    \/ NetTransmit
    \/ NetFree
    \/ NetFinish
    \/ AnomalyHolds
    \/ AnomalyGives

SpecNetwork == InitNetwork /\ [][NextNetwork]_vars

\* Under fair scheduling a worker that is inside its loop body takes its next
\* step, and a worker inside a lock section leaves it.
SpecNetworkFair ==
    /\ SpecNetwork
    /\ WF_vars(NetReconnect)
    /\ WF_vars(NetAllocate)
    /\ WF_vars(NetTransmit)
    /\ WF_vars(NetFree)
    /\ WF_vars(NetFinish)
    /\ WF_vars(AnomalyGives)

----------------------------------------------------------------------------
(* SpecMonitor: the Status Renderer's passes over the running system, with    *)
(* every sequence of usage samples per worker, and the Transmission Worker    *)
(* inside its lock sections around it.                                        *)

\* The system after WarmCycles cycles of the detector, each with a steady reading
\* received: both warm-up signals are given, the channels are empty and the
\* governor waits for the network bit.
InitAlert ==
    /\ tick = 0
    /\ stateLock = NoHolder
    /\ sensors = SteadyReading
    /\ emergency_stop = FALSE
    /\ pcSafety = "wait"
    /\ safety_state = NoAlarms
    /\ critical = FALSE
    /\ active_alarms = 0
    /\ pcSensor = "delay"
    /\ base_vibration = 25
    /\ stopSetAt = 0
    /\ eventBits = {SENSORS_CALIBRATED_BIT, ANOMALY_READY_BIT}
    /\ allReadySeen = FALSE
    /\ cycle_count = 2 * WarmCycles
    /\ sensors_calibrated = TRUE
    /\ anomaly_ready = TRUE
    /\ network_connected = TRUE
    /\ pcNetwork = "delay"
    /\ detection_state = Warmed(WarmCycles)
    /\ anomalies = InitialAnomalies
    /\ pcAnomaly = "delay"
    /\ detect = InitialDetectLocals
    /\ scenario = QuietScenario
    /\ stopHeld = FALSE
    /\ NetworkConstruction
    /\ MonitorConstruction
    /\ readySignals = [sensors |-> 1, anomaly |-> 1]
    /\ anomalyLocals = [cycle_count |-> WarmCycles, items_processed |-> 1]
    /\ sensorQueue = <<>>
    /\ alertQueue = <<>>
    /\ current_reading = NotAssembled
    /\ CounterConstruction

NextAlert ==
    \/ AlertReceive
    \/ AlertDetect
    \/ AlertSend
    \/ ProducerSends
    \/ NetworkDrainsAlert
    \/ NetworkHolds
    \/ NetworkGives

SpecAlert == InitAlert /\ [][NextAlert]_vars

InitCounter == Init

NextCounter ==
    \/ SafetyTimeoutLoad
    \/ SafetyTimeoutStore
    \/ NetworkTimeoutLoad
    \/ NetworkTimeoutStore
    \/ AnomalyHolds
    \/ AnomalyGives

SpecCounter == InitCounter /\ [][NextCounter]_vars

\* The system at its start: tick count 0, the store as system_state_init
\* leaves it (memset, then the initial sensor values), both workers before
\* their first release.
InitChannel ==
    /\ tick = 0
    /\ stateLock = NoHolder
    /\ sensors = Stamped(InitialReading, 0)
    /\ emergency_stop = FALSE
    /\ pcSafety = "wait"
    /\ safety_state = NoAlarms
    /\ critical = FALSE
    /\ active_alarms = 0
    /\ pcSensor = "delay"
    /\ base_vibration = 25
    /\ stopSetAt = 0
    /\ eventBits = {}
    /\ allReadySeen = FALSE
    /\ cycle_count = 0
    /\ sensors_calibrated = FALSE
    /\ anomaly_ready = FALSE
    /\ network_connected = TRUE
    /\ pcNetwork = "delay"
    /\ detection_state = InitialDetectionState
    /\ anomalies = InitialAnomalies
    /\ pcAnomaly = "delay"
    /\ detect = InitialDetectLocals
    /\ scenario = QuietScenario
    /\ stopHeld = FALSE
    /\ NetworkConstruction
    /\ MonitorConstruction
    /\ readySignals = NoSignals
    /\ AlertConstruction
    /\ CounterConstruction

NextChannel ==
    \/ ChannelStore
    \/ ChannelSend
    \/ ChannelWake
    \/ ChannelReceive
    \/ ChannelDetect
    \/ NetworkHolds
    \/ NetworkGives

SpecChannel == InitChannel /\ [][NextChannel]_vars

InitClassify == InitBarrier

\* The Transmission Worker with the workers that write the inputs of its
\* classification.
NextClassify ==
    \/ NetRelease
    \/ NetReconnect
    \/ NetAllocate
    \/ NetTransmit
    \/ NetFree
    \/ NetFinish
    \/ GovernorWritesStop
    \/ DetectorWritesHealth
    \/ DetectorOffersAlert

SpecClassify == InitClassify /\ [][NextClassify]_vars

InitSection == Init

NextSection ==
    \E w \in SectionWorkers :
        \/ SectionRelease(w)
        \/ SectionBlocks(w)
        \/ SectionTake(w)
        \/ SectionCountTake(w)
        \/ SectionCountGive(w)
        \/ SectionGive(w)

SpecSection == InitSection /\ [][NextSection]_vars

\* A worker inside a section is ready to run, every other worker suspends
\* itself once per cycle (vTaskDelayUntil), and no statement of a section
\* waits: each statement of a section is executed.
SpecSectionFair ==
    /\ SpecSection
    /\ \A w \in SectionWorkers :
          /\ WF_vars(SectionCountTake(w))
          /\ WF_vars(SectionCountGive(w))
          /\ WF_vars(SectionGive(w))

InitMonitor == Init

NextMonitor ==
    \/ DashboardRelease
    \/ DashboardSample
    \/ DashboardDraw
    \/ NetworkHolds
    \/ NetworkGives

SpecMonitor == InitMonitor /\ [][NextMonitor]_vars

----------------------------------------------------------------------------
(* Claims about the Safety Governor, checked under Spec *)

\* The governor has completed a cycle and waits for its next release.
SafetyCycleEnded == pcSafety = "delay"

\* C1: the Safety Governor changes emergency_stop from true to false only in a
\* cycle in which all four critical conditions are false for the values it read
\* in that cycle.  The alarm booleans are the four conditions of the values the
\* last evaluation read, so at the clearing write no alarm boolean may be true.
C1_ClearOnlyWhenSafe ==
    [][(pcSafety = "unlatch" /\ emergency_stop /\ ~emergency_stop')
         => ActiveAlarms(safety_state) = 0]_vars

\* C2: whenever emergency_stop becomes true at tick t, whichever worker set it,
\* it is not set back to false before t + 5000 ms.
C2_MinimumHold ==
    [][(emergency_stop /\ ~emergency_stop')
         => tick' - stopSetAt >= EMERGENCY_STOP_DURATION]_vars

\* C3: in any cycle in which a critical condition newly becomes true and at
\* least two of the four conditions hold for the values read in that cycle,
\* emergency_stop is true when that cycle ends.
C3_LatchWithinCycle ==
    (SafetyCycleEnded /\ critical /\ active_alarms >= 2) => emergency_stop

\* C4: at the end of every cycle of the governor, if at least two alarm
\* booleans are true then emergency_stop is true.
C4_AlarmsImplyStop ==
    (SafetyCycleEnded /\ ActiveAlarms(safety_state) >= 2) => emergency_stop

\* C5: the Safety Governor never sets emergency_stop in a cycle in which fewer
\* than two alarm booleans are true after evaluation: every step of the governor
\* that executes trigger_emergency_stop or raises the flag has at least two
\* alarm booleans true.
C5_NoLatchBelowTwo ==
    [][(pcSafety' # pcSafety /\ (pcSafety = "trigger" \/ (~emergency_stop /\ emergency_stop')))
         => ActiveAlarms(safety_state) >= 2]_vars

\* A cycle ended in which one condition rose, it is the only alarm, and the
\* flag is not set.
C5_Witness ==
    SafetyCycleEnded /\ critical /\ active_alarms = 1 /\ ~emergency_stop

\* The number of alarm booleans that are false in a and true in b.
Rises(a, b) ==
    (IF ~a.vibration_alarm /\ b.vibration_alarm THEN 1 ELSE 0)
    + (IF ~a.temperature_alarm /\ b.temperature_alarm THEN 1 ELSE 0)
    + (IF ~a.rpm_alarm /\ b.rpm_alarm THEN 1 ELSE 0)
    + (IF ~a.current_alarm /\ b.current_alarm THEN 1 ELSE 0)

\* C20: alarm_count increases by exactly one at each transition of an alarm
\* boolean from false to true and at no other time: in every step it grows by
\* the number of booleans that rise in that step, so it keeps its value while
\* the evaluations, the re-check for clearing included, find a condition again
\* whose boolean is already true.
C20_CountsRisingEdges ==
    [][safety_state'.alarm_count = safety_state.alarm_count + Rises(safety_state, safety_state')]_vars

\* The re-check for clearing has found the vibration condition again: two
\* alarms were counted when the stop was latched and none since.
C20_Witness ==
    /\ pcSafety = "unlatch"
    /\ safety_state.vibration_alarm
    /\ safety_state.alarm_count = 2

\* The governor evaluates the critical conditions in this step, in its cycle or
\* in the re-check for clearing, and its take of the state lock times out.
EvaluatesWithoutLock ==
    /\ pcSafety \in {"delay", "recheck"}
    /\ pcSafety' # pcSafety
    /\ ~TakeSucceeds(SafetyTask)

\* C24: a Safety Governor cycle whose sensor read fails to acquire the state
\* lock changes no alarm boolean: a lock timeout alone never produces an alarm
\* rising edge (alarm counter increment) and never clears an alarm.
C24_TimeoutKeepsAlarms ==
    [][EvaluatesWithoutLock =>
          /\ safety_state'.vibration_alarm = safety_state.vibration_alarm
          /\ safety_state'.temperature_alarm = safety_state.temperature_alarm
          /\ safety_state'.rpm_alarm = safety_state.rpm_alarm
          /\ safety_state'.current_alarm = safety_state.current_alarm
          /\ safety_state'.alarm_count = safety_state.alarm_count]_vars

\* C15: every field of the Shared State Store is written by exactly one worker;
\* in particular the sensor reading is written only by the Telemetry Producer
\* and emergency_stop only by the Safety Governor: the flag changes only in
\* steps of the governor, the reading only in the producer's publishing step.
C15_SingleWriter ==
    [][/\ emergency_stop' # emergency_stop => pcSafety' # pcSafety
       /\ sensors' # sensors => (pcSensor \in {"delay", "drain"} /\ pcSensor' = "delay")]_vars

----------------------------------------------------------------------------
(* Claims about the readiness barrier, checked under SpecBarrier *)

\* C6: the Safety Governor evaluates no critical condition and never sets
\* emergency_stop before a state in which all three readiness bits are set at
\* the same time: while no such state has occurred the governor is at its wait,
\* its alarm booleans are untouched and the flag is not set.
C6_BarrierBeforeEvaluation ==
    ~allReadySeen =>
        /\ pcSafety = "wait"
        /\ safety_state = NoAlarms
        /\ ~critical
        /\ ~emergency_stop

\* The governor has been released and has evaluated the conditions once.
C6_Witness == allReadySeen /\ pcSafety = "clear"

\* C21: each owning worker signals its readiness flag at most once and not
\* before its warm-up condition holds: the Telemetry Producer signals at its 20th
\* cycle and never again, the Anomaly Detector only once 20 values have been
\* appended to its history and never again.
C21_SignalledOnce ==
    [][/\ readySignals'.sensors # readySignals.sensors
            => /\ readySignals.sensors = 0 /\ readySignals'.sensors = 1
               /\ cycle_count' = CALIBRATION_CYCLES
       /\ readySignals'.anomaly # readySignals.anomaly
            => /\ readySignals.anomaly = 0 /\ readySignals'.anomaly = 1
               /\ detection_state'.history_index >= BASELINE_WINDOW]_vars

\* Both workers have signalled and have run further cycles since.
C21_Witness ==
    /\ readySignals = [sensors |-> 1, anomaly |-> 1]
    /\ cycle_count > CALIBRATION_CYCLES
    /\ detection_state.history_index > BASELINE_WINDOW + 1

\* C23: if the Telemetry Producer, the Anomaly Detector and the Transmission
\* Worker all keep running, the Safety Governor is eventually released from the
\* readiness barrier and starts its control loop, in every fair execution: once
\* the producer and the detector have signalled, the governor leaves its wait.
C23_GovernorReleased ==
    ({SENSORS_CALIBRATED_BIT, ANOMALY_READY_BIT} \subseteq eventBits) ~> (pcSafety # "wait")

----------------------------------------------------------------------------
(* Claims about the Anomaly Detector, checked under SpecDetect and SpecContend *)

\* The 20 most recently appended values of a channel, oldest first.
RecentWindow(history, index) ==
    [k \in 0..(BASELINE_WINDOW - 1) |->
        history[(index - BASELINE_WINDOW + k) % HISTORY_SIZE]]

StatisticsOfRecent(history, index, baseline, stddev) ==
    LET recent == RecentWindow(history, index)
        mean == calculate_mean(recent, BASELINE_WINDOW)
    IN /\ baseline = mean
       /\ stddev = calculate_stddev(recent, BASELINE_WINDOW, mean)

\* C8: once at least 20 values have been appended, the baseline and the spread
\* of each channel are the mean and the population standard deviation of exactly
\* the 20 most recently appended values, also after more than 100 values.
C8_BaselineOfLastTwenty ==
    detection_state.history_index >= BASELINE_WINDOW =>
        /\ StatisticsOfRecent(detection_state.vibration_history,
                              detection_state.history_index,
                              detection_state.vibration_baseline,
                              detection_state.vibration_stddev)
        /\ StatisticsOfRecent(detection_state.temperature_history,
                              detection_state.history_index,
                              detection_state.temperature_baseline,
                              detection_state.temperature_stddev)
        /\ StatisticsOfRecent(detection_state.rpm_history,
                              detection_state.history_index,
                              detection_state.rpm_baseline,
                              detection_state.rpm_stddev)

\* C22: for every value of the history counter, every element of a history
\* array that update_baselines reads lies inside the 100-element buffer: start
\* index plus window length is at most 100, also once more than 100 values have
\* been appended.
C22_WindowInsideBuffer ==
    WindowStart(detection_state.history_index) + WindowCount(detection_state.history_index)
        <= HISTORY_SIZE

\* The value of a channel appended in the current detection cycle.
Appended(history, index) == history[(index - 1) % HISTORY_SIZE]

\* C26: in every detection cycle, whatever the number of samples collected so
\* far, a channel is flagged exactly when |value - baseline| > 3 * spread or the
\* value exceeds its warning threshold (vibration, temperature) or lies outside
\* [rpm_min, rpm_max] (speed).
C26_FlaggedByRule ==
    pcAnomaly # "delay" =>
        LET ds == detection_state
            vib == Appended(ds.vibration_history, ds.history_index)
            temp == Appended(ds.temperature_history, ds.history_index)
            rpm == Appended(ds.rpm_history, ds.history_index)
        IN /\ detect.vib_anomaly =
                  (ThreeSigma(vib, ds.vibration_baseline, ds.vibration_stddev)
                   \/ vib > g_thresholds.vibration_warning)
           /\ detect.temp_anomaly =
                  (ThreeSigma(temp, ds.temperature_baseline, ds.temperature_stddev)
                   \/ temp > g_thresholds.temperature_warning)
           /\ detect.rpm_anomaly =
                  (ThreeSigma(rpm, ds.rpm_baseline, ds.rpm_stddev)
                   \/ rpm < g_thresholds.rpm_min \/ rpm > g_thresholds.rpm_max)

\* C9: every health score written to the store lies in [0, 100], and each
\* channel's penalty is non-negative and capped at 30, 25 and 25.
C9_HealthInRange ==
    /\ anomalies.health_score \in 0..10000
    /\ detect.vib_penalty \in 0..3000
    /\ detect.temp_penalty \in 0..2500
    /\ detect.rpm_penalty \in 0..2500

\* A cycle has written a health score below 100 in which the vibration penalty
\* stands at its cap and the flag played no part.
C9_Witness ==
    /\ pcAnomaly = "delay"
    /\ detect.vib_penalty = 3000
    /\ ~detect.emergency
    /\ anomalies.health_score = detect.health
    /\ anomalies.health_score < 10000

\* C10: whenever emergency_stop is set and stays set, the health score in the
\* store is exactly 0 once the next cycle of the Anomaly Detector has completed.
C10_ZeroHealthUnderStop ==
    (pcAnomaly = "delay" /\ stopHeld) => anomalies.health_score = 0

\* The scenario puts a vibration spike above the warning threshold behind at
\* least 20 identical readings.
SpikeAfterBaseline == scenario.kind = "spike" /\ scenario.oddAt >= BASELINE_WINDOW

\* The detector writes the results of the cycle that appended value number
\* index (counted from 1) of the scenario, and gets the lock for it.
WritesCycle(index) ==
    /\ pcAnomaly = "write" /\ pcAnomaly' = "delay"
    /\ stateLock = NoHolder
    /\ detection_state.history_index = index

\* C19: after at least 20 identical values of a channel, a single value above
\* the warning threshold is flagged in the cycle it arrives in, the health score
\* written in that cycle is below 100, and the health score written in the next
\* cycle, with the value back at the constant, is higher than that one.  The
\* flag in the store marks that the cycle of the spike has written its results.
C19_SpikeFlaggedThenRecovers ==
    [][/\ (SpikeAfterBaseline /\ WritesCycle(scenario.oddAt + 1))
          => (anomalies'.vibration_anomaly /\ anomalies'.health_score < 10000)
       /\ (SpikeAfterBaseline /\ WritesCycle(scenario.oddAt + 2) /\ anomalies.vibration_anomaly)
          => anomalies'.health_score > anomalies.health_score]_vars

----------------------------------------------------------------------------
(* Claims about the timeout counter, checked under SpecCounter *)

\* C30: each failed acquisition of the state lock leaves the fields guarded by
\* that section unchanged and increases system_mutex_timeouts by exactly one,
\* so that the counter equals the total number of state-lock timeouts of all
\* workers: whenever no increment is under way, the counter is the number of
\* takes that have timed out.
C30_TimeoutsCounted ==
    (\A w \in CountingWorkers : timeoutLoaded[w] = NotLoaded)
        => mutex_stats.system_mutex_timeouts = timeoutsOccurred

----------------------------------------------------------------------------
(* Claims about the Anomaly Detector's whole cycle, checked under SpecAlert *)

\* C25: in every Anomaly Detector cycle the number of values appended to each
\* channel's history equals the number of readings received from the telemetry
\* channel in that cycle (0, 1 or 2); a cycle that receives no reading appends
\* nothing.  The history grows in the step of detect_anomalies only.
C25_AppendsWhatItReceived ==
    [][detection_state'.history_index =
          detection_state.history_index
          + (IF pcAnomaly = "detect" /\ pcAnomaly' = "alert"
             THEN anomalyLocals.items_processed ELSE 0)]_vars

\* C27: on every second Anomaly Detector cycle, if any of the three anomaly
\* flags is set, exactly one alert is offered to the alert channel, with severity
\* 8 when the vibration flag is set and 5 otherwise; if the channel already holds
\* 3 alerts the new alert is dropped.
C27_AlertEverySecondCycle ==
    [][(/\ pcAnomaly = "alert" /\ pcAnomaly' = "delay"
        /\ anomalyLocals.cycle_count % 2 = 0
        /\ (anomalies.vibration_anomaly \/ anomalies.temperature_anomaly
            \/ anomalies.rpm_anomaly))
       => alertQueue' = OfferAlert(alertQueue, AlertFor(anomalies))]_vars

----------------------------------------------------------------------------
(* Claims about the Transmission Worker, checked under SpecNetwork *)

\* The Transmission Worker has ended a cycle and waits for its next release.
NetCycleEnded == pcNetwork = "delay"

\* C11: for every Transmission Worker cycle, active_allocations at the end of the
\* cycle equals its value at the start of the cycle, whether the transmission
\* succeeds or fails and whatever lock contention occurs; the counter never
\* underflows, that is, it is never decremented from 0.
C11_AllocationsBalanced ==
    [][/\ (pcNetwork' = "delay" =>
              memory_stats'.active_allocations = activeAtRelease')
       /\ (memory_stats'.active_allocations = Dec32(memory_stats.active_allocations) =>
              memory_stats.active_allocations # Zero32)]_vars

\* C12: every packet buffer the Transmission Worker allocates is freed exactly
\* once before that cycle ends, on success and on failure alike: the heap holds
\* at most one buffer of the worker, exactly when its pointer is live; only a
\* live buffer is ever freed; and at every release point none is outstanding.
C12_FreedWithinCycle ==
    /\ heap_packets = (IF netLocals.packet = "buffer" THEN 1 ELSE 0)
    /\ netLocals.packet = "buffer" => pcNetwork \in {"transmit", "free"}
    /\ NetCycleEnded => heap_packets = 0

\* A cycle has ended whose transmission failed and whose buffer has been freed.
C12_Witness ==
    /\ NetCycleEnded
    /\ netLocals.packet = "freed"
    /\ ~netLocals.success
    /\ heap_packets = 0

\* C18: every periodic worker that starts a cycle reaches its next periodic
\* release point, under fair scheduling: no step inside the loop body, packet
\* allocation included, blocks or loops forever.  For the Transmission Worker:
\* whenever it is inside its loop body it later waits for its release again.
C18_CycleCompletes == (pcNetwork # "delay") ~> (pcNetwork = "delay")

\* C28: after any Transmission Worker cycle in which the simulated transmission
\* fails, the network-connected flag in the shared state is false, for every
\* interleaving with the other workers.
C28_FailureClearsFlag ==
    (NetCycleEnded /\ netLocals.packet = "freed" /\ ~netLocals.success) => ~network_connected

\* C29: when packet allocation returns none, the Transmission Worker transmits
\* nothing in that cycle, the allocation-failure counter increases by exactly
\* one, active_allocations is unchanged, and the worker goes on to its next cycle.
C29_AllocationFailureSkipsCycle ==
    [][(pcNetwork = "allocate" /\ pcNetwork' # "allocate" /\ netLocals'.packet = "NULL")
       => /\ pcNetwork' = "delay"
          /\ memory_stats'.active_allocations = memory_stats.active_allocations
          /\ memory_stats'.allocation_failures = Inc32(memory_stats.allocation_failures)]_vars

\* C31: the sensor reading held in the Shared State Store is never replaced by
\* an older one: over any execution the timestamp of the stored reading is
\* non-decreasing.
C31_StoredReadingNeverOlder ==
    [][sensors'.timestamp >= sensors.timestamp]_vars

\* The send of the producer ends on a channel that is still full.
SendFails ==
    /\ pcSensor = "send"
    /\ pcSensor' = "delay"
    /\ Len(sensorQueue) = SENSOR_QUEUE_LENGTH

\* C33: when the telemetry channel is still full at the end of the producer's
\* send timeout, the reading is not enqueued, the channel's contents and order
\* are unchanged, and the producer proceeds to its next cycle without waiting
\* further.
C33_FullChannelDropsReading ==
    [][SendFails => /\ sensorQueue' = sensorQueue
                    /\ pcSensor' = "delay"
                    /\ tick' = tick]_vars

\* The producer waits for its next release after a send that found the
\* channel full: the reading of the cycle is not in the channel.
C33_Witness ==
    /\ pcSensor = "delay"
    /\ Len(sensorQueue) = SENSOR_QUEUE_LENGTH
    /\ current_reading.timestamp = tick
    /\ \A k \in 1..Len(sensorQueue) : sensorQueue[k].timestamp < tick

\* C39: in every reachable state, system_mutex_takes - system_mutex_gives is 0
\* or 1 (modulo 2^32), and it is 0 whenever no worker holds the state lock.
C39_TakesMatchGives ==
    LET open == Sub32(mutex_stats.system_mutex_takes, mutex_stats.system_mutex_gives)
    IN /\ open \in {Zero32, Inc32(Zero32)}
       /\ stateLock = NoHolder => open = Zero32

\* The Telemetry Producer is inside its section, its take counted and its give
\* not yet, after a take of the state lock has timed out.
C39_Witness ==
    /\ stateLock = SensorTask
    /\ sectionPc[SensorTask].inside = "counted"
    /\ mutex_stats.system_mutex_timeouts > 0
    /\ mutex_stats.system_mutex_takes = Inc32(mutex_stats.system_mutex_gives)

\* A worker holds one of the two locks.
HoldsLock(w) == stateLock = w \/ thresholdLock = w

C32_PacketClass ==
    [][/\ (pcNetwork = "delay" /\ pcNetwork' # "delay")
          => (netLocals'.alerts_processed > 0 <=> alertQueue' # alertQueue)
       /\ (pcNetwork = "allocate" /\ pcNetwork' = "transmit")
          => LET class == netLocals'.packet_type
                 tenth == netLocals.cycle_count % 10 = 0
                 report == \/ emergency_stop
                           \/ anomalies.health_score < 5000
                           \/ netLocals.alerts_processed > 0
             IN /\ tenth => class = "PACKET_TYPE_HEARTBEAT"
                /\ (~tenth /\ report) => class = "PACKET_TYPE_ANOMALY_REPORT"
                /\ (~tenth /\ ~report) => class = "PACKET_TYPE_SENSOR_DATA"]_vars

\* A cycle transmits an anomaly report for the only reason that it drained an
\* alert.
C32_Witness ==
    /\ pcNetwork = "transmit"
    /\ netLocals.packet_type = "PACKET_TYPE_ANOMALY_REPORT"
    /\ netLocals.alerts_processed = 1
    /\ ~emergency_stop
    /\ anomalies.health_score >= 5000

\* C35: outside the critical section of the accounting functions,
\* active_allocations = allocations - deallocations (modulo 2^32), also when
\* accounting updates are skipped because the take of the state lock timed out.
C35_ActiveIsDifference ==
    memory_stats.active_allocations
      = Sub32(memory_stats.allocations, memory_stats.deallocations)

\* The update for an allocation was skipped and the one for its free was made:
\* one deallocation against no allocation, and the active count wrapped.
C35_Witness ==
    /\ memory_stats.allocations = Zero32
    /\ memory_stats.deallocations = Inc32(Zero32)
    /\ memory_stats.active_allocations = Dec32(Zero32)
    /\ NetCycleEnded

\* C36: at every Transmission Worker cycle boundary, from system start on, the
\* network-connected flag in the shared state and the NETWORK_CONNECTED
\* readiness bit of the event group have the same value.
C36_FlagMatchesBit ==
    NetCycleEnded => (network_connected <=> NETWORK_CONNECTED_BIT \in eventBits)

\* C16: every read and every write of a Shared State Store field by a worker
\* happens while that worker holds the state lock: no step of the Transmission
\* Worker accesses a field of the store without the lock.
C16_AccessUnderLock == netUnguarded = {}

----------------------------------------------------------------------------
(* Claims about the stack monitor and the Status Renderer, checked under     *)
(* SpecMonitor                                                               *)

\* The step is one call of update_stack_monitoring.
SampleStep == pcDashboard = "stats" /\ dashLocals'.i = dashLocals.i + 1

\* C13: for every sequence of usage samples of one worker, after a warning has
\* been counted no further warning is counted for that worker until a sample
\* below 60% has been seen, and the flag goes from set to clear exactly at the
\* first sample below 60% that follows a counted warning: 75% then 55% yields
\* one warning and one recovery, oscillating between 65% and 75% adds no warning.
C13_WarningHysteresis ==
    [][\A t \in DOMAIN monitorSeen :
         LET a == monitorSeen[t]
             b == monitorSeen'[t]
             low == /\ SampleStep
                    /\ monitorCall'.task_name = t
                    /\ monitorCall'.usage_percent < STACK_RECOVERY_PERCENT
         IN /\ b.counted # a.counted => (b.counted = a.counted + 1 /\ ~a.warned)
            /\ b.recoveries = a.recoveries + (IF a.warned /\ low THEN 1 ELSE 0)]_vars

\* The Safety Governor's usage rose into the warning range and fell to 55%: one
\* warning counted for it, one recovery.
C13_Witness ==
    /\ monitorCall.task_name = SafetyTask
    /\ monitorCall.usage_percent = 55
    /\ monitorSeen[SafetyTask].peak = 0
    /\ monitorSeen[SafetyTask].counted = 1
    /\ monitorSeen[SafetyTask].recoveries = 1
    /\ ~WarningIssued(stack_monitoring, SafetyTask)

\* C14: a worker whose stack usage first reaches the 70% level (below 85%) and
\* later reaches 85% or more, without dropping below 60% in between, is counted
\* as a critical-usage event when it reaches 85%: the escalation is recorded.
C14_EscalationRecorded ==
    [][LET t == monitorCall'.task_name
       IN (/\ SampleStep
           /\ monitorCall'.usage_percent >= STACK_CRITICAL_PERCENT
           /\ monitorSeen[t].peak >= STACK_HIGH_PERCENT
           /\ monitorSeen[t].peak < STACK_CRITICAL_PERCENT)
          => stack_monitoring'.global_stats.critical_usage_events
               = stack_monitoring.global_stats.critical_usage_events + 1]_vars

\* The entry of a worker in the table of the monitor.
MonitorOf(sm, task_name) == sm.tasks[FindMonitor(sm.tasks, task_name)]

Tracked(sm, task_name) == FindMonitor(sm.tasks, task_name) # 0

\* C37: for every tracked worker and every sequence of sampling passes,
\* minimum_high_water never increases, and after each sample it is at most the
\* high-water mark of that sample (hence of every sample since the entry was
\* created).
C37_MinimumNeverRises ==
    [][\A t \in DOMAIN monitorSeen :
         /\ (Tracked(stack_monitoring, t) /\ Tracked(stack_monitoring', t))
              => MonitorOf(stack_monitoring', t).minimum_high_water
                   <= MonitorOf(stack_monitoring, t).minimum_high_water
         /\ (SampleStep /\ monitorCall'.task_name = t /\ Tracked(stack_monitoring', t))
              => MonitorOf(stack_monitoring', t).minimum_high_water
                   <= monitorCall'.stack_free_words]_vars

\* The Safety Governor's stack was sampled at 90% and then at 55%: the minimum
\* stays at the free words of the first sample.
C37_Witness ==
    /\ monitorCall.task_name = SafetyTask
    /\ monitorCall.usage_percent = 55
    /\ Tracked(stack_monitoring, SafetyTask)
    /\ MonitorOf(stack_monitoring, SafetyTask).minimum_high_water
         < MonitorOf(stack_monitoring, SafetyTask).current_high_water

\* C38: in every reachable state of the stack monitor,
\* warnings_issued = high_usage_events + critical_usage_events.
C38_WarningsAreEvents ==
    LET gs == stack_monitoring.global_stats
    IN gs.warnings_issued = gs.high_usage_events + gs.critical_usage_events

\* A warning of each kind has been counted.
C38_Witness ==
    /\ stack_monitoring.global_stats.high_usage_events >= 1
    /\ stack_monitoring.global_stats.critical_usage_events >= 1

\* The step belongs to a pass of the Status Renderer.
RendererStep == pcDashboard' # pcDashboard \/ dashLocals' # dashLocals

\* C17: a Status Renderer pass leaves every field of the Shared State Store
\* unchanged, and reads the store only while holding the state lock: no step of
\* a pass changes a field, and none runs while another worker is inside a lock
\* section.
C17_RendererReadOnly ==
    [][RendererStep =>
         /\ stack_monitoring' = stack_monitoring
         /\ uptime_seconds' = uptime_seconds
         /\ stateLock = NoHolder]_vars

====
